---- MODULE Spec2Model ----
(***************************************************************************)
(* The usage/activity statistics refresh task of the dashboard backend     *)
(* (backend/src/usage.rs, backend/src/activity.rs) and the read handler    *)
(* that serves the shared snapshot.                                        *)
(*                                                                         *)
(* Time is counted in whole days.  A timestamp string is modelled by what  *)
(* the code can do with it: <<>> is the empty string, <<"rfc3339", d>> a   *)
(* string that parses as RFC3339 to day d, <<"malformed">> any non-empty   *)
(* string that does not parse.  An Option is <<>> (None) or <<x>> (Some).  *)
(* Account and sender identities are natural numbers standing for the      *)
(* address strings.                                                        *)
(***************************************************************************)
EXTENDS Integers, Sequences, FiniteSets, Bags, TLC

VARIABLES
    stats,              \* UsageStats.stats: stat name -> window -> u64
    selected_accounts,  \* UsageStats.selected_accounts: selection -> Vec<Account>
    lock,               \* the RwLock/Mutex around the snapshot: "free" or "writer"
    pc,                 \* position of the monitoring task
    now,                \* `now` of the current cycle
    page_token,         \* `page_token` of the running pagination loop
    unique_accounts,    \* `unique_accounts`: window -> set of senders
    gas_usage,          \* `gas_usage`: sender -> gas used in the last 24 hours
    response,           \* what the read handler returned last (None before a read)
    env,                \* which upstream data set the sources serve in this run
    cycle,              \* history: refresh cycles started, counted up to MaxCycles
    pre,                \* history: the snapshot when the current cycle took the lock
    committed,          \* history: the snapshot when the last cycle released the lock
    ops_log,            \* history: this cycle's traffic with the operations source
    acc_log,            \* history: this cycle's traffic with the accounts source
    served,             \* history: records served by each source in this run
    time_windows,       \* `time_windows` of the current cycle: window -> days
    reader,             \* the client of the read endpoint: "idle" or "waiting"
    bridge,             \* bridge.rs: the bridge task, its BridgeState and its reader
    wallets,            \* wallets.rs: the balance task, its SharedWallets and its reader
    network,            \* main.rs: the status task, its SharedState and its reader
    pgu64               \* pgu64.rs: values under conversion

\* the variables of the usage/activity task and its read handler
usage_task == <<stats, selected_accounts, lock, pc, now, page_token, unique_accounts,
                gas_usage, response, env, cycle, pre, committed, ops_log, acc_log, served,
                time_windows, reader>>

\* the variables of the other parts of the backend
other_tasks == <<bridge, wallets, network, pgu64>>

vars == <<usage_task, other_tasks>>

-----------------------------------------------------------------------------
(* Bounds of the model *)

MaxCycles == 2      \* refresh cycles per run
MaxPages == 2       \* pages one source serves in one cycle
MaxOps == 2         \* operation records served in one run (env "ops")
MaxAccts == 2       \* account records served in one run (env "accounts")

(* Program constants *)

TopN == 5           \* take(5) / truncate(5)
DaysPerYear == 365  \* range of chrono's ordinal() in a common year

\* records on one page of the env "wide": one more than a selection keeps
Wide == TopN + 1

-----------------------------------------------------------------------------
(* Values *)

None == <<>>
Some(x) == <<x>>

Min(a, b) == IF a < b THEN a ELSE b

EmptyString == <<>>
Rfc3339(d) == <<"rfc3339", d>>
Malformed == <<"malformed">>

\* mutant of parse_from_rfc3339: what does not parse counts as the epoch
parse_or_epoch(s) ==
    IF Len(s) = 2 /\ s[1] = "rfc3339" THEN Some(s[2]) ELSE Some(0)

\* DateTime::parse_from_rfc3339(..).map(|dt| dt.with_timezone(&Utc))
parse_from_rfc3339(s) ==
    IF Len(s) = 2 /\ s[1] = "rfc3339" THEN Some(s[2]) ELSE None

\* enum UsageStatName / ActivityStatName
StatNames == {"UserOps", "GasUsed", "UniqueActiveAccounts"}

\* enum TimeWindow
TimeWindows == {"Last24Hours", "Last30Days", "YearToDate"}

\* enum SelectAccountsBy
SelectAccountsBy == {"Recent", "TopGasConsumers24h"}

\* mutant of ordinal: the days elapsed since January 1, starting from 0
ordinal0(t) == t % DaysPerYear

\* Datelike::ordinal(): day of the year, starting from 1
ordinal(t) == (t % DaysPerYear) + 1

\* TimeWindow::to_duration
to_duration(tw, t) ==
    CASE tw = "Last24Hours" -> 1
      [] tw = "Last30Days" -> 30
      [] tw = "YearToDate" -> ordinal(t)

\* `Utc.with_ymd_and_hms(now.year(), 1, 1, 0, 0, 0)`
first_of_year(t) == (t \div DaysPerYear) * DaysPerYear

\* `start_time`: the earlier of now - 30 days and January 1 of now's year
start_time(t) == Min(t - 30, first_of_year(t))

\* struct Account
Account(address, creation_timestamp, gas) ==
    [address |-> address, creation_timestamp |-> creation_timestamp, gas_used |-> gas]

\* struct UserOp
UserOp(sender, gas, timestamp) ==
    [sender |-> sender, gas_used |-> gas, timestamp |-> timestamp]

\* HashMap::insert
Insert(map, key, value) ==
    [k \in DOMAIN map \cup {key} |-> IF k = key THEN value ELSE map[k]]

\* mutant of DefaultStats: the inner loop over the time windows is missing
DefaultStatsWithoutWindows == [s \in StatNames |-> <<>>]

\* mutant of DefaultSelectedAccounts: the selections start with a placeholder
DefaultSelectedAccountsMock ==
    [k \in SelectAccountsBy |-> <<Account(1, EmptyString, 0)>>]

\* UsageStats::default / ActivityStats::default
DefaultStats == [s \in StatNames |-> [w \in TimeWindows |-> 0]]
DefaultSelectedAccounts == [k \in SelectAccountsBy |-> <<>>]

Snapshot == [stats |-> stats, selected_accounts |-> selected_accounts]

-----------------------------------------------------------------------------
(* Decoding the items of a response *)

\* a field of a JSON item: absent, or present with a JSON value.  The content
\* of a JSON string is what the code can do with it: a timestamp as above, an
\* address, or the text of a fee
Absent == <<"absent">>
JsonNull == <<"null">>
JsonString(content) == <<"string", content>>
JsonNumber(n) == <<"number", n>>
JsonObject(fields) == <<"object", fields>>

\* the text of a fee: the decimal digits of a value that fits u64, the decimal
\* digits of a greater value, or something else
Decimal(n) == <<"decimal", n>>
DecimalBeyondU64 == <<"decimal beyond u64">>
NotDecimal == <<"text">>

\* Result<T, E>
Ok(x) == <<"ok", x>>
Err == <<"err">>
IsOk(r) == r[1] = "ok"

\* get_address_hash: `value.get("hash").and_then(|h| h.as_str())`
get_address_hash(value) ==
    IF value[1] = "object" /\ "hash" \in DOMAIN value[2] /\ value[2].hash[1] = "string"
    THEN Ok(value[2].hash[2])
    ELSE Err

\* str::parse::<u64>
parse_u64(text) == IF text[1] = "decimal" THEN Ok(text[2]) ELSE Err

\* convert_to_u64: `String::deserialize` then `s.parse::<u64>()`
convert_to_u64(value) == IF value[1] = "string" THEN parse_u64(value[2]) ELSE Err

\* from_null_or_string: `Option::<Value>::deserialize` gives None for null
from_null_or_string(value) ==
    CASE value[1] = "string" -> Ok(value[2])
      [] value[1] = "null" -> Ok(EmptyString)
      [] OTHER -> Err

\* `String` / `u64` fields decoded by serde itself
deserialize_string(value) == IF value[1] = "string" THEN Ok(value[2]) ELSE Err
deserialize_u64(value) == IF value[1] = "number" THEN Ok(value[2]) ELSE Err

\* #[derive(Deserialize)] for a field without `default`: an absent field is the
\* error missing_field, whether or not the field has `deserialize_with`; the
\* field's function decodes a present value only
MissingField(value, decoded) == IF value = Absent THEN Err ELSE decoded

\* #[serde(default)]: an absent field is Default::default()
DefaultField(value, decoded, default) == IF value = Absent THEN Ok(default) ELSE decoded

\* #[derive(Deserialize)] struct UserOp
DecodeUserOp(item) ==
    LET sender == MissingField(item.address, get_address_hash(item.address))
        gas == MissingField(item.fee, convert_to_u64(item.fee))
        timestamp == MissingField(item.timestamp, deserialize_string(item.timestamp))
    IN  IF IsOk(sender) /\ IsOk(gas) /\ IsOk(timestamp)
        THEN Ok(UserOp(sender[2], gas[2], timestamp[2]))
        ELSE Err

\* #[derive(Deserialize)] struct Account
DecodeAccount(item) ==
    LET address == MissingField(item.address, get_address_hash(item.address))
        creation_timestamp == MissingField(item.creation_timestamp,
                                           from_null_or_string(item.creation_timestamp))
        gas == DefaultField(item.gas_used, deserialize_u64(item.gas_used), 0)
    IN  IF IsOk(address) /\ IsOk(creation_timestamp) /\ IsOk(gas)
        THEN Ok(Account(address[2], creation_timestamp[2], gas[2]))
        ELSE Err

\* mutant of DecodeUserOps: the items that do not decode are skipped
DecodeUserOpsSkippingBad(items) ==
    LET F[i \in 0..Len(items)] ==
            IF i = 0 THEN <<>>
            ELSE IF IsOk(DecodeUserOp(items[i]))
                 THEN Append(F[i - 1], DecodeUserOp(items[i])[2])
                 ELSE F[i - 1]
    IN  Ok(F[Len(items)])

\* `serde_json::from_value::<Vec<UserOp>>(items)`: every item decodes, or the
\* page fails
DecodeUserOps(items) ==
    IF \A i \in 1..Len(items) : IsOk(DecodeUserOp(items[i]))
    THEN Ok([i \in 1..Len(items) |-> DecodeUserOp(items[i])[2]])
    ELSE Err

\* `serde_json::from_value::<Vec<Account>>(items)`
DecodeAccounts(items) ==
    IF \A i \in 1..Len(items) : IsOk(DecodeAccount(items[i]))
    THEN Ok([i \in 1..Len(items) |-> DecodeAccount(items[i])[2]])
    ELSE Err

\* the items a source sends for well-formed records
EncodeUserOp(op) ==
    [address |-> JsonObject([hash |-> JsonString(op.sender)]),
     fee |-> JsonString(Decimal(op.gas_used)),
     timestamp |-> JsonString(op.timestamp)]

EncodeAccount(acc) ==
    [address |-> JsonObject([hash |-> JsonString(acc.address)]),
     creation_timestamp |-> JsonString(acc.creation_timestamp),
     gas_used |-> Absent]

-----------------------------------------------------------------------------
(* The upstream sources *)

\* "ops": operation records of every age;  "gas": recent operation records of
\* every cost;  "accounts": account records of every kind;  "wide": pages longer
\* than a selection;  "reads": a client polls the read endpoint;  "bad_ops",
\* "bad_accounts": items that do not decode among items that do
Envs == {"ops", "gas", "accounts", "wide", "reads", "bad_ops", "bad_accounts"}

\* what Utc::now() may read at the start of a cycle: early and late in a year
Nows == IF env = "ops" THEN {2, 39} ELSE {39}
Senders == {1, 2}
GasValues == {1, 3}
OpAges == {1, 2, 35}
AcctAges == {0, 1}
Tokens == {"tok1"}

\* a token string: as it is, or wrapped in double-quote characters
Plain(t) == <<t>>
Quoted(t) == <<"\"", t, "\"">>

RECURSIVE SeqsUpTo(_, _)
SeqsUpTo(S, n) ==
    IF n = 0 THEN {<<>>}
    ELSE LET shorter == SeqsUpTo(S, n - 1)
         IN  shorter \cup {Append(q, x) : q \in shorter, x \in S}

UserOpRecords(t) ==
    CASE env = "ops" -> {UserOp(s, 3, ts) : s \in Senders,
                            ts \in {Rfc3339(t - a) : a \in OpAges} \cup {Malformed}}
      [] env = "gas" -> {UserOp(s, g, Rfc3339(t - 1)) : s \in Senders, g \in GasValues}
      [] env \in {"reads", "bad_ops"} -> {UserOp(1, 3, Rfc3339(t - 1))}
      [] OTHER -> {}

AccountRecords(t) ==
    CASE env = "accounts" ->
            {Account(a, Rfc3339(t - d), 0) : a \in Senders, d \in AcctAges}
                \cup {Account(1, Malformed, 0), Account(1, EmptyString, 0)}
      [] env \in {"reads", "bad_accounts"} -> {Account(1, Rfc3339(t), 0)}
      [] OTHER -> {}

\* one page with Wide distinct senders, all in the last 24 hours
WideUserOps(t) ==
    { [i \in 1..Wide |-> UserOp(i, i, Rfc3339(t - 1))],
      [i \in 1..Wide |-> UserOp(i, IF i = Wide THEN i - 1 ELSE i, Rfc3339(t))] }

\* one page with Wide accounts
WideAccounts(t) ==
    { [i \in 1..Wide |-> Account(i, Rfc3339(t - i), 0)],
      [i \in 1..Wide |-> Account(i, Rfc3339(t + i - Wide), 0)] }

UserOpsPages ==
    CASE env \in {"ops", "gas", "reads", "accounts", "bad_ops", "bad_accounts"} ->
            {p \in SeqsUpTo(UserOpRecords(now), MaxOps) : served.ops + Len(p) <= MaxOps}
      [] env = "wide" -> {<<>>} \cup {p \in WideUserOps(now) : served.ops = 0}

AccountsPages ==
    CASE env \in {"ops", "gas", "reads", "accounts", "bad_ops", "bad_accounts"} ->
            {p \in SeqsUpTo(AccountRecords(now), MaxAccts) :
                served.accounts + Len(p) <= MaxAccts}
      [] env = "wide" -> {<<>>} \cup {p \in WideAccounts(now) : served.accounts = 0}

\* the items of env "bad_ops": a well-formed one, and the same with an address
\* object without hash, without address, with a fee that is not a number, with
\* a fee beyond u64
RawUserOpItems(t) ==
    LET good == EncodeUserOp(UserOp(1, 3, Rfc3339(t - 1)))
    IN  {good,
         [good EXCEPT !.address = JsonObject([ens_domain_name |-> JsonNull])],
         [good EXCEPT !.address = Absent],
         [good EXCEPT !.fee = JsonString(NotDecimal)],
         [good EXCEPT !.fee = JsonString(DecimalBeyondU64)]}

\* the items of env "bad_accounts": a well-formed one, and the same with a null
\* creation_timestamp, without creation_timestamp, with a number for it, with
\* an address object without hash
RawAccountItems(t) ==
    LET good == EncodeAccount(Account(1, Rfc3339(t), 0))
    IN  {good,
         [good EXCEPT !.creation_timestamp = JsonNull],
         [good EXCEPT !.creation_timestamp = Absent],
         [good EXCEPT !.creation_timestamp = JsonNumber(t)],
         [good EXCEPT !.address = JsonObject([ens_domain_name |-> JsonNull])]}

\* the "items" arrays the operations source may send
RawUserOpsPages ==
    IF env = "bad_ops"
    THEN {p \in SeqsUpTo(RawUserOpItems(now), MaxOps) : served.ops + Len(p) <= MaxOps}
    ELSE {[i \in 1..Len(p) |-> EncodeUserOp(p[i])] : p \in UserOpsPages}

\* the "items" arrays the accounts source may send
RawAccountsPages ==
    IF env = "bad_accounts"
    THEN {p \in SeqsUpTo(RawAccountItems(now), MaxAccts) :
            served.accounts + Len(p) <= MaxAccts}
    ELSE {[i \in 1..Len(p) |-> EncodeAccount(p[i])] : p \in AccountsPages}

\* the strings a source may send as page token: wrapped in quotes in env "gas"
TokenStrings ==
    {Plain(t) : t \in Tokens} \cup (IF env = "gas" THEN {Quoted(t) : t \in Tokens} ELSE {})

\* next_page_params.page_token of a response: absent, a string or (env "gas")
\* a number; pagination is cut at MaxPages, and in env "reads" every response
\* is the last page
NextTokens(pages_so_far) ==
    {Absent}
        \cup (IF env = "gas" THEN {JsonNumber(1)} ELSE {})
        \cup (IF pages_so_far + 1 < MaxPages /\ env # "reads"
              THEN {JsonString(t) : t \in TokenStrings}
              ELSE {})

\* mutant of trim_matches: the string is taken as it is
NoTrim(string) == string

\* `s.trim_matches('"')`: the double quotes at both ends are removed
RECURSIVE trim_matches(_)
trim_matches(string) ==
    IF string = <<>> THEN string
    ELSE IF Head(string) = "\"" THEN trim_matches(Tail(string))
    ELSE IF string[Len(string)] = "\"" THEN trim_matches(SubSeq(string, 1, Len(string) - 1))
    ELSE string

\* `.and_then(|token| token.as_str()).map(|s| s.trim_matches('"').to_string())`
next_page_token(value) ==
    IF value[1] = "string" THEN Some(trim_matches(value[2])) ELSE None

-----------------------------------------------------------------------------
(* The window aggregator: the body of the operations loop *)

\* mutant of InWindow: the comparison made strict
InWindowStrict(tw, t, op_time) == t - to_duration(tw, t) < op_time

\* mutant of InWindow: the records older than the window are taken
InWindowOlder(tw, t, op_time) == op_time <= t - to_duration(tw, t)

\* `now - *duration <= op_time`
InWindow(tw, t, op_time) == t - to_duration(tw, t) <= op_time

\* matches!(stat_key, UserOps | GasUsed)
CountedStats == {"UserOps", "GasUsed"}

\* mutant of Increment: nothing is added
IncrementByZero(stat_key, entry) == 0

\* `*locked_stats.stats.entry(stat_name)...or_insert(0) += 1`
Increment(stat_key, entry) == 1

\* mutant of AddGas: the tally is overwritten instead of added to
AddGasOverwrites(usage, sender, gas) ==
    [s \in DOMAIN usage \cup {sender} |-> IF s = sender THEN gas ELSE usage[s]]

\* `*gas_usage.entry(sender).or_insert(0) += gas_used`
AddGas(usage, sender, gas) ==
    IF sender \in DOMAIN usage
    THEN [usage EXCEPT ![sender] = @ + gas]
    ELSE [s \in DOMAIN usage \cup {sender} |-> IF s = sender THEN gas ELSE usage[s]]

\* the body of `for entry in response.user_ops`
\* st = [stats, unique_accounts, gas_usage]
ApplyUserOp(st, entry, t) ==
    LET op_time == parse_from_rfc3339(entry.timestamp)
    IN  IF op_time = None THEN st
        ELSE [stats |->
                [s \in DOMAIN st.stats |->
                    [w \in DOMAIN st.stats[s] |->
                        IF s \in CountedStats /\ InWindow(w, t, op_time[1])
                        THEN st.stats[s][w] + Increment(s, entry)
                        ELSE st.stats[s][w]]],
              unique_accounts |->
                [w \in DOMAIN st.unique_accounts |->
                    IF InWindow(w, t, op_time[1])
                    THEN st.unique_accounts[w] \cup {entry.sender}
                    ELSE st.unique_accounts[w]],
              gas_usage |->
                IF t - 1 <= op_time[1]
                THEN AddGas(st.gas_usage, entry.sender, entry.gas_used)
                ELSE st.gas_usage]

RECURSIVE ApplyUserOps(_, _, _)
ApplyUserOps(st, page, t) ==
    IF page = <<>> THEN st
    ELSE ApplyUserOps(ApplyUserOp(st, Head(page), t), Tail(page), t)

\* mutant of ResetStats: the counters are left as they are
ResetStatsKeeps(st) == st

\* mutant of ResetStats: the cost counter is not among the stats reset
ResetStatsButGasUsed(st) ==
    [s \in StatNames \cup DOMAIN st |->
        [w \in TimeWindows \cup (IF s \in DOMAIN st THEN DOMAIN st[s] ELSE {}) |->
            IF w \in TimeWindows /\ s \in StatNames /\ ~(s = "GasUsed" /\ s \in DOMAIN st)
            THEN 0 ELSE st[s][w]]]

\* "Initialize or reset stats"
ResetStats(st) ==
    [s \in StatNames \cup DOMAIN st |->
        [w \in TimeWindows \cup (IF s \in DOMAIN st THEN DOMAIN st[s] ELSE {}) |->
            IF w \in TimeWindows /\ s \in StatNames THEN 0 ELSE st[s][w]]]

\* mutant of StoreUniqueCounts: the counts are not stored
StoreNoUniqueCounts(st, unique) == st

\* mutant of StoreUniqueCounts: one set for all windows
StoreUniqueCountsOfAllWindows(st, unique) ==
    [st EXCEPT !["UniqueActiveAccounts"] =
        [w \in DOMAIN @ |-> Cardinality(UNION {unique[v] : v \in DOMAIN unique})]]

\* "Store the count of unique active accounts"
StoreUniqueCounts(st, unique) ==
    LET name == "UniqueActiveAccounts"
        old == IF name \in DOMAIN st THEN st[name] ELSE <<>>
    IN  Insert(st, name,
               [w \in DOMAIN old \cup DOMAIN unique |->
                    IF w \in DOMAIN unique THEN Cardinality(unique[w]) ELSE old[w]])

-----------------------------------------------------------------------------
(* The ranking selector *)

\* mutant of Take: one element too many
TakeOneMore(s, n) == SubSeq(s, 1, IF Len(s) < n + 1 THEN Len(s) ELSE n + 1)

\* into_iter().take(n) / truncate(n)
Take(s, n) == SubSeq(s, 1, IF Len(s) < n THEN Len(s) ELSE n)

\* mutant of Reverse: the reversal forgotten
NoReverse(s) == s

\* `top_gas_consumers.reverse()`
Reverse(s) == [i \in 1..Len(s) |-> s[Len(s) + 1 - i]]

\* mutant of WithTimestamp: nothing is filtered out
WithOrWithoutTimestamp(accs) == accs

\* `.filter(|acc| !acc.creation_timestamp.is_empty())`
RECURSIVE WithTimestamp(_)
WithTimestamp(accs) ==
    IF accs = <<>> THEN <<>>
    ELSE IF Head(accs).creation_timestamp = EmptyString
         THEN WithTimestamp(Tail(accs))
         ELSE <<Head(accs)>> \o WithTimestamp(Tail(accs))

\* mutant of RecentTime: a timestamp that does not parse counts as the epoch
RecentTimeEpoch(acc, clock) ==
    LET parsed == parse_from_rfc3339(acc.creation_timestamp)
    IN  IF parsed = None THEN 0 ELSE parsed[1]

\* `parse_from_rfc3339(..).unwrap_or(Utc::now())`; clock is what Utc::now() reads
RecentTime(acc, clock) ==
    LET parsed == parse_from_rfc3339(acc.creation_timestamp)
    IN  IF parsed = None THEN clock ELSE parsed[1]

\* position of x in a stable sort by `b_time.cmp(&a_time)`: before the first
\* element that is strictly older
RECURSIVE InsertRecent(_, _, _)
InsertRecent(sorted, x, clock) ==
    IF sorted = <<>> THEN <<x>>
    ELSE IF RecentTime(Head(sorted), clock) < RecentTime(x, clock)
         THEN <<x>> \o sorted
         ELSE <<Head(sorted)>> \o InsertRecent(Tail(sorted), x, clock)

\* `sorted_accounts.sort_by(..)`  (slice::sort_by is stable)
RECURSIVE SortRecent(_, _)
SortRecent(accs, clock) ==
    IF accs = <<>> THEN <<>>
    ELSE InsertRecent(SortRecent(SubSeq(accs, 1, Len(accs) - 1), clock),
                      accs[Len(accs)], clock)

\* the Ok branch of the accounts loop: the selection stored for one page
RecentAccounts(page, clock) == Take(SortRecent(WithTimestamp(page), clock), TopN)

\* the sort key of sort_by_key: gas_usage.get(&acc.address).cloned().unwrap_or(0)
GasKey(usage, acc) == IF acc.address \in DOMAIN usage THEN usage[acc.address] ELSE 0

RECURSIVE InsertByGas(_, _, _)
InsertByGas(sorted, x, usage) ==
    IF sorted = <<>> THEN <<x>>
    ELSE IF GasKey(usage, Head(sorted)) > GasKey(usage, x)
         THEN <<x>> \o sorted
         ELSE <<Head(sorted)>> \o InsertByGas(Tail(sorted), x, usage)

\* `top_gas_consumers.sort_by_key(..)`  (stable, ascending)
RECURSIVE SortByGas(_, _)
SortByGas(accs, usage) ==
    IF accs = <<>> THEN <<>>
    ELSE InsertByGas(SortByGas(SubSeq(accs, 1, Len(accs) - 1), usage),
                     accs[Len(accs)], usage)

\* the orders in which a HashMap may yield its keys
RECURSIVE IterationOrders(_)
IterationOrders(S) ==
    IF S = {} THEN {<<>>}
    ELSE UNION {{<<x>> \o p : p \in IterationOrders(S \ {x})} : x \in S}

\* mutant of TopGasConsumers: a stable descending sort, without the reverse
TopGasConsumersStableDescending(usage, order) ==
    LET accs == [i \in 1..Len(order) |->
                    Account(order[i], EmptyString, usage[order[i]])]
    IN  Take(Reverse(SortByGas(Reverse(accs), usage)), TopN)

\* "Top gas consumers": order is the order gas_usage.into_iter() yields
TopGasConsumers(usage, order) ==
    LET accs == [i \in 1..Len(order) |-> Account(order[i], EmptyString, usage[order[i]])]
    IN  Take(Reverse(SortByGas(accs, usage)), TopN)

\* the senders of order whose total is also the total of another sender
RECURSIVE Tied(_, _)
Tied(usage, order) ==
    IF order = <<>> THEN <<>>
    ELSE LET s == Head(order)
         IN  (IF \E o \in DOMAIN usage : o # s /\ usage[o] = usage[s] THEN <<s>> ELSE <<>>)
                \o Tied(usage, Tail(order))

\* what the end of a cycle may store, over all iteration orders
TopGasOutcomes(usage) ==
    {[selection |-> TopGasConsumers(usage, order), tied |-> Tied(usage, order)] :
        order \in IterationOrders(DOMAIN usage)}

\* the selections the end of a cycle may store
TopGasSelections(usage) == {out.selection : out \in TopGasOutcomes(usage)}

-----------------------------------------------------------------------------
(* The other tasks of the backend: their values and where they start *)

\* BridgeStatus::default()
DefaultBridgeStatus ==
    [operators |-> <<>>, deposits |-> <<>>, withdrawals |-> <<>>, reimbursements |-> <<>>]

\* the bridge task before its first tick, against an upstream with these
\* operator indices and deposit ids.  status: the BridgeStatus behind the
\* Mutex;  lock: "free" or "task";  pc: where the task is ("dead" after a
\* panic);  operators: the local `operators` table;  response: what
\* get_bridge_status returned last;  done, complete, at_failure, died_at:
\* history (the cycles that ended, whether all of them found every deposit,
\* the status when the task died and the call it died in)
BridgeStart(operator_idxs, deposit_ids) ==
    [status |-> DefaultBridgeStatus, lock |-> "free", pc |-> "tick", operators |-> <<>>,
     response |-> None, done |-> 0, complete |-> TRUE, at_failure |-> None,
     died_at |-> None, upstream |-> [operators |-> operator_idxs, deposits |-> deposit_ids]]

\* a decimal or hexadecimal string: its characters in order
ZeroString == <<"0">>

\* init_paymaster_wallets, and the balance task before its first tick.
\* deposit, validating: the balance strings of the SharedWallets;  lock: who
\* holds its mutex;  pc: where the task is;  balance_dep, balance_val: what the
\* fetches of the cycle yielded;  response: what get_wallets_with_balances
\* returned last;  rounds, missed: history (the cycles that ended, whether a
\* fetch has yielded nothing);  info: whether the logger lets info records
\* through
WalletsStart(info) ==
    [deposit |-> ZeroString, validating |-> ZeroString, lock |-> "free", pc |-> "tick",
     balance_dep |-> None, balance_val |-> None, response |-> None, rounds |-> 0,
     missed |-> FALSE, info |-> info]

\* the NetworkStatus main() starts with, and the status task before its first
\* tick.  status: the SharedState;  lock: who holds its mutex;  pc: where the
\* task is;  probed: the results of the probes of this round, in their order;
\* response: what get_network_status returned last;  rounds: history (the
\* new_status of every round that ended)
NetworkStart ==
    [status |-> [batch_producer |-> "Offline", rpc_endpoint |-> "Offline",
                 bundler_endpoint |-> "Offline"],
     lock |-> "free", pc |-> "tick", probed |-> <<>>, response |-> None,
     rounds |-> <<>>]

\* values waiting to be converted.  x, z: two PgU64;  y: an i64 as the
\* database holds it;  pc: how far the conversions have come;  x_i64, z_i64:
\* to_i64 of x and of z;  x_back: from_i64 of x_i64;  y_u64: from_i64 of y;
\* y_back: to_i64 of y_u64
PgStart(x, z, y) ==
    [x |-> x, z |-> z, y |-> y, pc |-> "start", x_i64 |-> None, z_i64 |-> None,
     x_back |-> None, y_u64 |-> None, y_back |-> None]

\* the other tasks at rest, for the runs that follow the usage task alone
OtherTasksIdle ==
    /\ bridge = BridgeStart({}, {})
    /\ wallets = WalletsStart(TRUE)
    /\ network = NetworkStart
    /\ pgu64 = PgStart(0, 0, 0)

-----------------------------------------------------------------------------
(* The refresh task and the read handler *)

\* requests: the page tokens sent;  returned: the page_token values of the
\* responses;  ok: pages decoded;  failed: a fetch returned Err;  records /
\* pages: what the decoded pages held;  accepted: the items of the pages that
\* decoded;  rejected: the items of the page that did not;  yielded: the
\* order in which gas_usage yielded the senders whose total is also another
\* sender's
EmptyOpsLog == [requests |-> <<>>, returned |-> <<>>, ok |-> 0, failed |-> FALSE,
                records |-> EmptyBag, accepted |-> {}, rejected |-> None,
                now |-> 0, before |-> [w \in TimeWindows |-> EmptyBag]]

\* the records of a bag that parse and lie in window w at instant t
RecordsIn(w, records, t) ==
    LET inside == {r \in DOMAIN records :
                    /\ parse_from_rfc3339(r.timestamp) # None
                    /\ InWindow(w, t, parse_from_rfc3339(r.timestamp)[1])}
    IN  [r \in inside |-> records[r]]

\* the log a cycle starts with: its `now`, and per window the records the
\* cycle before it counted in that window
FreshOpsLog(log, t) ==
    [EmptyOpsLog EXCEPT !.now = t,
                        !.before = [w \in TimeWindows |-> RecordsIn(w, log.records, log.now)]]
EmptyAccLog == [requests |-> <<>>, returned |-> <<>>, ok |-> 0, failed |-> FALSE,
                pages |-> <<>>, accepted |-> {}, rejected |-> None, yielded |-> <<>>]

Range(q) == {q[i] : i \in DOMAIN q}
UserOpsDecode(items) == IsOk(DecodeUserOps(items))
AccountsDecode(items) == IsOk(DecodeAccounts(items))

\* what makes a fetch return Err: the transport (None) or a page that does
\* not decode (Some(items))
UserOpsFailures ==
    {None} \cup {Some(items) : items \in {p \in RawUserOpsPages : ~UserOpsDecode(p)}}
AccountsFailures ==
    {None} \cup {Some(items) : items \in {p \in RawAccountsPages : ~AccountsDecode(p)}}

RECURSIVE BagOfSeq(_)
BagOfSeq(q) == IF q = <<>> THEN EmptyBag ELSE SetToBag({Head(q)}) (+) BagOfSeq(Tail(q))

Init ==
    /\ stats = DefaultStats
    /\ selected_accounts = DefaultSelectedAccounts
    /\ lock = "free"
    /\ pc = "tick"
    /\ now = 0
    /\ page_token = None
    /\ unique_accounts = [w \in TimeWindows |-> {}]
    /\ gas_usage = <<>>
    /\ response = None
    /\ env \in Envs
    /\ cycle = 0
    /\ pre = [stats |-> DefaultStats, selected_accounts |-> DefaultSelectedAccounts]
    /\ committed = [stats |-> DefaultStats, selected_accounts |-> DefaultSelectedAccounts]
    /\ ops_log = EmptyOpsLog
    /\ acc_log = EmptyAccLog
    /\ served = [ops |-> 0, accounts |-> 0]
    /\ time_windows = None
    /\ reader = "idle"
    /\ OtherTasksIdle

\* `interval.tick().await; ... let now = Utc::now();`
Tick ==
    /\ pc = "tick"
    /\ cycle < MaxCycles
    /\ \E t \in Nows : t >= now /\ now' = t
    /\ pc' = "lock"
    /\ UNCHANGED <<other_tasks, reader, time_windows, stats, selected_accounts, lock, page_token, unique_accounts, gas_usage,
                   response, env, cycle, pre, committed, ops_log, acc_log, served>>

\* mutant of AcquireAndReset: the handler gave out a live reference, so the
\* reset shows in the value a reader already holds
AcquireAndResetSeenByHolders ==
    /\ pc = "lock"
    /\ lock = "free"
    /\ lock' = "writer"
    /\ time_windows' = [tw \in TimeWindows |-> to_duration(tw, now)]
    /\ stats' = ResetStats(stats)
    /\ response' = IF response = None THEN None
                   ELSE Some([response[1] EXCEPT !.snapshot.stats = stats'])
    /\ unique_accounts' = [w \in TimeWindows |-> {}]
    /\ gas_usage' = <<>>
    /\ page_token' = None
    /\ pc' = "user_ops"
    /\ cycle' = Min(cycle + 1, MaxCycles)
    /\ pre' = Snapshot
    /\ ops_log' = FreshOpsLog(ops_log, now)
    /\ acc_log' = EmptyAccLog
    /\ UNCHANGED <<other_tasks, reader, selected_accounts, now, env, committed, served>>

\* `shared_stats.write().await` up to the first fetch: the guard is taken, the
\* stats are reset and the per-cycle locals are created
AcquireAndReset ==
    /\ pc = "lock"
    /\ lock = "free"
    /\ lock' = "writer"
    /\ time_windows' = [tw \in TimeWindows |-> to_duration(tw, now)]
    /\ stats' = ResetStats(stats)
    /\ unique_accounts' = [w \in TimeWindows |-> {}]
    /\ gas_usage' = <<>>
    /\ page_token' = None
    /\ pc' = "user_ops"
    /\ cycle' = Min(cycle + 1, MaxCycles)
    /\ pre' = Snapshot
    /\ ops_log' = FreshOpsLog(ops_log, now)
    /\ acc_log' = EmptyAccLog
    /\ UNCHANGED <<other_tasks, reader, selected_accounts, now, response, env, committed, served>>

\* a log keeps what the first MaxPages requests of a cycle sent and got
Logged(seq, x) == IF Len(seq) < MaxPages THEN Append(seq, x) ELSE seq

\* the Ok branch of the operations loop for a response with these items and
\* this page_token value
UserOpsPage(items, next) ==
    LET page == DecodeUserOps(items)[2]
        st == ApplyUserOps([stats |-> stats, unique_accounts |-> unique_accounts,
                            gas_usage |-> gas_usage], page, now)
    IN  /\ UserOpsDecode(items)
        /\ unique_accounts' = st.unique_accounts
        /\ gas_usage' = st.gas_usage
        /\ ops_log' = [ops_log EXCEPT !.requests = Logged(@, page_token),
                                      !.returned = Logged(@, next),
                                      !.ok = Min(@ + 1, MaxPages),
                                      !.records = @ (+) BagOfSeq(page),
                                      !.accepted = @ \cup Range(items)]
        /\ served' = [served EXCEPT !.ops = @ + Len(page)]
        /\ IF next_page_token(next) = None
           THEN /\ stats' = StoreUniqueCounts(st.stats, st.unique_accounts)
                /\ page_token' = None
                /\ pc' = "accounts"
           ELSE /\ stats' = st.stats
                /\ page_token' = next_page_token(next)
                /\ pc' = "user_ops"
        /\ UNCHANGED <<other_tasks, reader, time_windows, selected_accounts, lock, now, response, env,
                       cycle, pre, committed, acc_log>>

\* one iteration of the operations loop, fetch_user_ops returning Ok(response)
FetchUserOpsOk ==
    /\ pc = "user_ops"
    /\ \E items \in RawUserOpsPages, next \in NextTokens(ops_log.ok) :
        UserOpsPage(items, next)

\* mutant of FetchUserOpsErr: the counts of the earlier pages are rolled back
FetchUserOpsErrRollsBack ==
    /\ pc = "user_ops"
    /\ ops_log' = [ops_log EXCEPT !.requests = Append(@, page_token), !.failed = TRUE]
    /\ stats' = ResetStats(stats)
    /\ page_token' = None
    /\ pc' = "accounts"
    /\ UNCHANGED <<other_tasks, reader, time_windows, selected_accounts, lock, now, unique_accounts, gas_usage, response, env,
                   cycle, pre, committed, acc_log, served>>

\* mutant of FetchUserOpsErr: the error ends the cycle (`continue` to the next
\* tick instead of `break`)
FetchUserOpsErrAbandons ==
    /\ pc = "user_ops"
    /\ ops_log' = [ops_log EXCEPT !.requests = Append(@, page_token), !.failed = TRUE]
    /\ page_token' = None
    /\ pc' = "tick"
    /\ lock' = "free"
    /\ committed' = Snapshot
    /\ UNCHANGED <<other_tasks, reader, time_windows, stats, selected_accounts, now, unique_accounts,
                   gas_usage, response, env, cycle, pre, acc_log, served>>

\* mutant of FetchUserOpsErr: the guard is scoped to the operations loop and
\* dropped when it is left
FetchUserOpsErrDropsGuard ==
    /\ pc = "user_ops"
    /\ ops_log' = [ops_log EXCEPT !.requests = Append(@, page_token), !.failed = TRUE]
    /\ stats' = StoreUniqueCounts(stats, unique_accounts)
    /\ page_token' = None
    /\ pc' = "accounts"
    /\ lock' = "free"
    /\ UNCHANGED <<other_tasks, reader, time_windows, selected_accounts, now, unique_accounts, gas_usage,
                   response, env, cycle, pre, committed, acc_log, served>>

\* one iteration of the operations loop, fetch_user_ops returning Err (the
\* request failed or the items did not decode): break
FetchUserOpsErr ==
    /\ pc = "user_ops"
    /\ \E cause \in UserOpsFailures :
        /\ ops_log' = [ops_log EXCEPT !.requests = Append(@, page_token),
                                      !.failed = TRUE,
                                      !.rejected = cause]
        /\ served' = IF cause = None THEN served
                     ELSE [served EXCEPT !.ops = @ + Len(cause[1])]
    /\ stats' = StoreUniqueCounts(stats, unique_accounts)
    /\ page_token' = None
    /\ pc' = "accounts"
    /\ UNCHANGED <<other_tasks, reader, time_windows, selected_accounts, lock, now, unique_accounts,
                   gas_usage, response, env, cycle, pre, committed, acc_log>>

\* mutant of FinishCycle: the guard was taken outside the loop and is never
\* dropped
FinishCycleKeepsGuard(selected, top_gas_consumers) ==
    /\ selected_accounts' = Insert(selected, "TopGasConsumers24h", top_gas_consumers)
    /\ lock' = "writer"
    /\ pc' = "tick"
    /\ page_token' = None
    /\ committed' = [stats |-> stats, selected_accounts |-> selected_accounts']

\* mutant of FinishCycle: an empty tally leaves the selection as it was
FinishCycleKeepsTopWhenEmpty(selected, top_gas_consumers) ==
    /\ selected_accounts' =
            IF top_gas_consumers = <<>> THEN selected
            ELSE Insert(selected, "TopGasConsumers24h", top_gas_consumers)
    /\ lock' = "free"
    /\ pc' = "tick"
    /\ page_token' = None
    /\ committed' = [stats |-> stats, selected_accounts |-> selected_accounts']

\* mutant of FinishCycle: the next cycle starts without waiting for the tick
FinishCycleSkipsTick(selected, top_gas_consumers) ==
    /\ selected_accounts' = Insert(selected, "TopGasConsumers24h", top_gas_consumers)
    /\ lock' = "free"
    /\ pc' = "lock"
    /\ page_token' = None
    /\ committed' = [stats |-> stats, selected_accounts |-> selected_accounts']

\* after the accounts loop: the top gas consumers are stored and the guard is
\* dropped at the end of the loop body
FinishCycle(selected, top_gas_consumers) ==
    /\ selected_accounts' = Insert(selected, "TopGasConsumers24h", top_gas_consumers)
    /\ lock' = "free"
    /\ pc' = "tick"
    /\ page_token' = None
    /\ committed' = [stats |-> stats, selected_accounts |-> selected_accounts']

\* the Ok branch of the accounts loop for a response with these items and this
\* page_token value; clock is what Utc::now() reads in the sort, top what the
\* iteration over gas_usage gives if the loop ends here
AccountsPage(items, next, clock, top) ==
    LET page == DecodeAccounts(items)[2]
        selected == Insert(selected_accounts, "Recent", RecentAccounts(page, clock))
        last == next_page_token(next) = None
    IN  /\ AccountsDecode(items)
        /\ acc_log' = [acc_log EXCEPT !.requests = Logged(@, page_token),
                                      !.returned = Logged(@, next),
                                      !.ok = Min(@ + 1, MaxPages),
                                      !.pages = Logged(@, page),
                                      !.accepted = @ \cup Range(items),
                                      !.yielded = IF last THEN top.tied ELSE @]
        /\ served' = [served EXCEPT !.accounts = @ + Len(page)]
        /\ IF last
           THEN FinishCycle(selected, top.selection)
           ELSE /\ selected_accounts' = selected
                /\ page_token' = next_page_token(next)
                /\ UNCHANGED <<other_tasks, lock, pc, committed>>
        /\ UNCHANGED <<other_tasks, reader, time_windows, stats, now, unique_accounts, gas_usage,
                       response, env, cycle, pre, ops_log>>

\* one iteration of the accounts loop, fetch_accounts returning Ok(response)
FetchAccountsOk ==
    /\ pc = "accounts"
    /\ \E top \in TopGasOutcomes(gas_usage), items \in RawAccountsPages,
          next \in NextTokens(acc_log.ok), clock \in {now, now + 1} :
        AccountsPage(items, next, clock, top)

\* mutant of FetchAccountsErr: the recent accounts are cleared on failure
FetchAccountsErrClears ==
    /\ pc = "accounts"
    /\ acc_log' = [acc_log EXCEPT !.requests = Append(@, page_token), !.failed = TRUE]
    /\ \E top \in TopGasSelections(gas_usage) :
         FinishCycle([selected_accounts EXCEPT !["Recent"] = <<>>], top)
    /\ UNCHANGED <<other_tasks, reader, time_windows, stats, now, unique_accounts, gas_usage, response, env, cycle, pre, ops_log,
                   served>>

\* one iteration of the accounts loop, fetch_accounts returning Err (the
\* request failed or the items did not decode): break
FetchAccountsErr ==
    /\ pc = "accounts"
    /\ \E cause \in AccountsFailures, top \in TopGasOutcomes(gas_usage) :
        /\ acc_log' = [acc_log EXCEPT !.requests = Append(@, page_token),
                                      !.failed = TRUE,
                                      !.rejected = cause,
                                      !.yielded = top.tied]
        /\ served' = IF cause = None THEN served
                     ELSE [served EXCEPT !.accounts = @ + Len(cause[1])]
        /\ FinishCycle(selected_accounts, top.selection)
    /\ UNCHANGED <<other_tasks, reader, time_windows, stats, now, unique_accounts, gas_usage, response,
                   env, cycle, pre, ops_log>>

\* mutant of ReadLockAvailable: the handler reads without the lock
ReadLockIgnored == TRUE

\* `state.read().await` succeeds only while no writer holds the lock
ReadLockAvailable == lock = "free"

\* a request for the statistics reaches the handler
ReadRequest ==
    /\ env = "reads"
    /\ reader = "idle"
    /\ reader' = "waiting"
    /\ UNCHANGED <<other_tasks, stats, selected_accounts, lock, pc, now, page_token, unique_accounts,
                   gas_usage, response, env, cycle, pre, committed, ops_log, acc_log, served,
                   time_windows>>

\* get_usage_stats / get_activity_stats: lock, clone, unlock
GetStats ==
    /\ reader = "waiting"
    /\ ReadLockAvailable
    /\ reader' = "idle"
    /\ response' = Some([snapshot |-> Snapshot, committed |-> committed])
    /\ UNCHANGED <<other_tasks, time_windows, stats, selected_accounts, lock, pc, now, page_token, unique_accounts,
                   gas_usage, env, cycle, pre, committed, ops_log, acc_log, served>>

Next ==
    \/ Tick
    \/ AcquireAndReset
    \/ FetchUserOpsOk
    \/ FetchUserOpsErr
    \/ FetchAccountsOk
    \/ FetchAccountsErr
    \/ ReadRequest
    \/ GetStats

Spec == Init /\ [][Next]_vars

-----------------------------------------------------------------------------
(* The task running for ever, next to a client that polls the read endpoint *)

InitLive == Init /\ env = "reads"

\* `interval.tick().await` of a loop that never ends
TickForever ==
    /\ pc = "tick"
    /\ \E t \in Nows : t >= now /\ now' = t
    /\ pc' = "lock"
    /\ UNCHANGED <<other_tasks, reader, time_windows, stats, selected_accounts, lock, page_token,
                   unique_accounts, gas_usage, response, env, cycle, pre, committed, ops_log,
                   acc_log, served>>

NextLive ==
    \/ TickForever
    \/ AcquireAndReset
    \/ FetchUserOpsOk
    \/ FetchUserOpsErr
    \/ FetchAccountsOk
    \/ FetchAccountsErr
    \/ ReadRequest
    \/ GetStats

\* the interval fires again and again; the task gets the lock when it is free;
\* every fetch returns, so every cycle that starts ends; a waiting reader is
\* served by a fair lock although cycles keep taking it
Fairness ==
    /\ WF_vars(TickForever)
    /\ WF_vars(AcquireAndReset)
    /\ WF_vars(FetchUserOpsOk \/ FetchUserOpsErr)
    /\ WF_vars(FetchAccountsOk \/ FetchAccountsErr)
    /\ SF_vars(GetStats)

LiveSpec == InitLive /\ [][NextLive]_vars /\ Fairness

-----------------------------------------------------------------------------
(* Sources that may return a page token on any page, without end *)

\* the operations source answers with a page and a token for the next
FetchUserOpsMore ==
    /\ pc = "user_ops"
    /\ \E items \in RawUserOpsPages, t \in TokenStrings :
        UserOpsPage(items, JsonString(t))

\* mutant of FetchAccountsMore: the loop gives up after MaxPages pages
FetchAccountsAtMostMaxPages ==
    /\ pc = "accounts"
    /\ \E top \in TopGasOutcomes(gas_usage), items \in RawAccountsPages,
          t \in TokenStrings, clock \in {now, now + 1} :
        AccountsPage(items, IF acc_log.ok + 1 < MaxPages THEN JsonString(t) ELSE Absent,
                     clock, top)

\* the accounts source answers with a page and a token for the next
FetchAccountsMore ==
    /\ pc = "accounts"
    /\ \E top \in TopGasOutcomes(gas_usage), items \in RawAccountsPages,
          t \in TokenStrings, clock \in {now, now + 1} :
        AccountsPage(items, JsonString(t), clock, top)

NextPaging ==
    \/ TickForever
    \/ AcquireAndReset
    \/ FetchUserOpsMore
    \/ FetchUserOpsOk
    \/ FetchUserOpsErr
    \/ FetchAccountsMore
    \/ FetchAccountsOk
    \/ FetchAccountsErr

\* the interval fires and the task gets the free lock; every fetch returns,
\* and each source in the end answers with an error or with a page without a
\* token (in env "reads" FetchUserOpsOk and FetchAccountsOk are such pages)
FairnessPaging ==
    /\ WF_vars(TickForever)
    /\ WF_vars(AcquireAndReset)
    /\ WF_vars(FetchUserOpsOk \/ FetchUserOpsErr)
    /\ WF_vars(FetchAccountsOk \/ FetchAccountsErr)

PagingSpec == InitLive /\ [][NextPaging]_vars /\ FairnessPaging

\* the accounts source has a token on every page, and the operations source
\* may have one on every page too
NextEndless ==
    \/ TickForever
    \/ AcquireAndReset
    \/ FetchUserOpsMore
    \/ FetchUserOpsOk
    \/ FetchUserOpsErr
    \/ FetchAccountsMore
    \/ ReadRequest
    \/ GetStats

\* every fetch returns and the lock is granted fairly
FairnessEndless ==
    /\ WF_vars(TickForever)
    /\ WF_vars(AcquireAndReset)
    /\ WF_vars(FetchUserOpsMore \/ FetchUserOpsOk \/ FetchUserOpsErr)
    /\ WF_vars(FetchAccountsMore)
    /\ SF_vars(GetStats)

EndlessSpec == InitLive /\ [][NextEndless]_vars /\ FairnessEndless

-----------------------------------------------------------------------------
(* TimeWindow::to_duration over two years of instants *)

\* the instants `now` is drawn from: every day of two consecutive years
Instants == 0..(2 * DaysPerYear - 1)

\* the tick has fired and `now` was read
InitClock ==
    /\ stats = DefaultStats
    /\ selected_accounts = DefaultSelectedAccounts
    /\ lock = "free"
    /\ pc = "lock"
    /\ now \in Instants
    /\ page_token = None
    /\ unique_accounts = [w \in TimeWindows |-> {}]
    /\ gas_usage = <<>>
    /\ response = None
    /\ env = "ops"
    /\ cycle = 0
    /\ pre = [stats |-> DefaultStats, selected_accounts |-> DefaultSelectedAccounts]
    /\ committed = [stats |-> DefaultStats, selected_accounts |-> DefaultSelectedAccounts]
    /\ ops_log = EmptyOpsLog
    /\ acc_log = EmptyAccLog
    /\ served = [ops |-> 0, accounts |-> 0]
    /\ time_windows = None
    /\ reader = "idle"
    /\ OtherTasksIdle

\* `let time_windows = ... .map(|(tw, tw_value)| (tw_value.clone(), tw.to_duration(now)))`
ComputeTimeWindows ==
    /\ pc = "lock"
    /\ time_windows = None
    /\ time_windows' = [tw \in TimeWindows |-> to_duration(tw, now)]
    /\ UNCHANGED <<other_tasks, stats, selected_accounts, lock, pc, now, page_token, unique_accounts,
                   gas_usage, response, env, cycle, pre, committed, ops_log, acc_log, served,
                   reader>>

NextClock == ComputeTimeWindows

SpecClock == InitClock /\ [][NextClock]_vars

-----------------------------------------------------------------------------
(* The bridge status task and its read handler (bridge.rs) *)

\* the usage task at rest, for the runs that follow another task
UsageIdle ==
    /\ stats = DefaultStats
    /\ selected_accounts = DefaultSelectedAccounts
    /\ lock = "free"
    /\ pc = "tick"
    /\ now = 0
    /\ page_token = None
    /\ unique_accounts = [w \in TimeWindows |-> {}]
    /\ gas_usage = <<>>
    /\ response = None
    /\ env = "reads"
    /\ cycle = 0
    /\ pre = [stats |-> DefaultStats, selected_accounts |-> DefaultSelectedAccounts]
    /\ committed = [stats |-> DefaultStats, selected_accounts |-> DefaultSelectedAccounts]
    /\ ops_log = EmptyOpsLog
    /\ acc_log = EmptyAccLog
    /\ served = [ops |-> 0, accounts |-> 0]
    /\ time_windows = None
    /\ reader = "idle"

\* operator indices and deposit ids an upstream may have
OperatorIdxs == {0, 1}
DepositIds == {0, 1}

\* the members of a set of numbers in ascending order: the order in which a
\* BTreeMap<u32, _> is iterated
RECURSIVE Ascending(_)
Ascending(S) ==
    IF S = {} THEN <<>>
    ELSE LET least == CHOOSE x \in S : \A y \in S : x <= y
         IN  <<least>> \o Ascending(S \ {least})

\* the OperatorStatus pushed for one operator
OperatorStatus(index, status) ==
    [operator_id |-> <<"Alpen Labs #", index>>, operator_address |-> <<"key", index>>,
     status |-> status]

\* mock_deposit_info for the deposit entry of this id
mock_deposit_info(deposit_id) ==
    [deposit_request_txid |-> <<"abcdefgh", deposit_id>>,
     deposit_txid |-> Some(<<"12345678", deposit_id>>),
     status |-> "Accepted"]

\* mock_withdrawal_info
mock_withdrawal_info(operator_idx) ==
    <<[withdrawal_request_txid |-> <<"aabbccddee", operator_idx>>,
       fulfillment_txid |-> Some(<<"ffcdbade", operator_idx>>),
       status |-> "Accepted"]>>

\* number of entries mock_reimbursement_infos makes
MockReimbursements == 4

\* mock_reimbursement_infos
mock_reimbursement_infos ==
    [i \in 1..MockReimbursements |->
        [claim_txid |-> <<"fedcbaabcdef123", i>>, challenge_step |-> "N/A",
         payout_txid |-> Some(<<"123fedcbaabcdef", i>>), status |-> "Complete"]]

\* what strata_getCurrentDepositById may bring for one id: an entry with an
\* "output", an RPC error, an entry without "output"
DepositAnswers == {"entry", "rpc error", "no output"}

\* `for deposit_id in current_deposits`: the entries found are pushed, an RPC
\* error skips the id, and an entry without "output" panics in
\* `deposit_outpoint.unwrap()`
RECURSIVE PushDeposits(_, _, _)
PushDeposits(deposits, ids, answers) ==
    IF ids = <<>> THEN [deposits |-> deposits, panicked |-> FALSE]
    ELSE CASE answers[Head(ids)] = "no output" ->
                [deposits |-> deposits, panicked |-> TRUE]
           [] answers[Head(ids)] = "rpc error" ->
                PushDeposits(deposits, Tail(ids), answers)
           [] OTHER ->
                PushDeposits(Append(deposits, mock_deposit_info(Head(ids))), Tail(ids),
                             answers)

\* `for (index, _) in operators.0.iter()`: one mock withdrawal per operator
RECURSIVE AppendWithdrawals(_, _)
AppendWithdrawals(withdrawals, operators) ==
    IF operators = <<>> THEN withdrawals
    ELSE AppendWithdrawals(withdrawals \o mock_withdrawal_info(Head(operators)),
                           Tail(operators))

InitBridge ==
    /\ UsageIdle
    /\ \E operator_idxs \in SUBSET OperatorIdxs, deposit_ids \in SUBSET DepositIds :
        bridge = BridgeStart(operator_idxs, deposit_ids)
    /\ wallets = WalletsStart(TRUE)
    /\ network = NetworkStart
    /\ pgu64 = PgStart(0, 0, 0)

\* `interval.tick().await; let mut locked_state = state.lock().await;`
BridgeLock ==
    /\ bridge.pc = "tick"
    /\ bridge.lock = "free"
    /\ bridge.done < MaxCycles
    /\ bridge' = [bridge EXCEPT !.lock = "task", !.pc = "operators"]
    /\ UNCHANGED <<usage_task, wallets, network, pgu64>>

\* a panic of the task: the guard is dropped by the unwinding and the task
\* never runs again
BridgePanics(state) ==
    [state EXCEPT !.lock = "free", !.pc = "dead", !.at_failure = Some(state.status),
                  !.died_at = Some(state.pc)]

\* mutant of GetBridgeOperatorsOk: the statuses are added to the list in place
GetBridgeOperatorsAppends ==
    /\ bridge.pc = "operators"
    /\ \E status \in [bridge.upstream.operators -> {"Online", "Offline"}] :
        LET operators == Ascending(bridge.upstream.operators)
            operator_statuses ==
                [i \in 1..Len(operators) |->
                    OperatorStatus(operators[i], status[operators[i]])]
        IN  bridge' = [bridge EXCEPT !.status.operators = @ \o operator_statuses,
                                     !.operators = operators,
                                     !.pc = "deposits"]
    /\ UNCHANGED <<usage_task, wallets, network, pgu64>>

\* get_bridge_operators returns Ok: every operator is pinged (a failed ping
\* counts as Offline) and `locked_state.operators = operator_statuses`
GetBridgeOperatorsOk ==
    /\ bridge.pc = "operators"
    /\ \E status \in [bridge.upstream.operators -> {"Online", "Offline"}] :
        LET operators == Ascending(bridge.upstream.operators)
            operator_statuses ==
                [i \in 1..Len(operators) |->
                    OperatorStatus(operators[i], status[operators[i]])]
        IN  bridge' = [bridge EXCEPT !.status.operators = operator_statuses,
                                     !.operators = operators,
                                     !.pc = "deposits"]
    /\ UNCHANGED <<usage_task, wallets, network, pgu64>>

\* mutant of GetBridgeOperatorsErr: the failure is logged and the cycle is left
GetBridgeOperatorsErrSkipsCycle ==
    /\ bridge.pc = "operators"
    /\ bridge' = [bridge EXCEPT !.lock = "free", !.pc = "tick"]
    /\ UNCHANGED <<usage_task, wallets, network, pgu64>>

\* get_bridge_operators returns Err: `.unwrap()` panics
GetBridgeOperatorsErr ==
    /\ bridge.pc = "operators"
    /\ bridge' = BridgePanics(bridge)
    /\ UNCHANGED <<usage_task, wallets, network, pgu64>>

\* get_current_deposits returns Ok and every entry that comes has an "output"
GetCurrentDepositsOk ==
    /\ bridge.pc = "deposits"
    /\ \E answers \in [bridge.upstream.deposits -> DepositAnswers \ {"no output"}] :
        LET pushed == PushDeposits(bridge.status.deposits,
                                   Ascending(bridge.upstream.deposits), answers)
        IN  bridge' = [bridge EXCEPT
                        !.status.deposits = pushed.deposits,
                        !.complete = @ /\ \A id \in DOMAIN answers : answers[id] = "entry",
                        !.pc = "withdrawals"]
    /\ UNCHANGED <<usage_task, wallets, network, pgu64>>

\* get_current_deposits returns Ok and an entry comes without "output":
\* get_deposit_info panics after the entries before it were pushed
GetDepositInfoPanics ==
    /\ bridge.pc = "deposits"
    /\ \E answers \in [bridge.upstream.deposits -> DepositAnswers] :
        LET pushed == PushDeposits(bridge.status.deposits,
                                   Ascending(bridge.upstream.deposits), answers)
        IN  /\ pushed.panicked
            /\ bridge' = BridgePanics([bridge EXCEPT !.status.deposits = pushed.deposits])
    /\ UNCHANGED <<usage_task, wallets, network, pgu64>>

\* get_current_deposits returns Err: `.unwrap()` panics
GetCurrentDepositsErr ==
    /\ bridge.pc = "deposits"
    /\ bridge' = BridgePanics(bridge)
    /\ UNCHANGED <<usage_task, wallets, network, pgu64>>

\* the withdrawals of every operator are appended (get_withdrawals returns
\* its mock and never Err)
GetWithdrawals ==
    /\ bridge.pc = "withdrawals"
    /\ bridge' = [bridge EXCEPT
                    !.status.withdrawals = AppendWithdrawals(@, bridge.operators),
                    !.pc = "reimbursements"]
    /\ UNCHANGED <<usage_task, wallets, network, pgu64>>

\* `locked_state.reimbursements = reimbursements`, and the guard is dropped
\* at the end of the loop body
GetReimbursements ==
    /\ bridge.pc = "reimbursements"
    /\ bridge' = [bridge EXCEPT !.status.reimbursements = mock_reimbursement_infos,
                                 !.lock = "free",
                                 !.pc = "tick",
                                 !.done = @ + 1]
    /\ UNCHANGED <<usage_task, wallets, network, pgu64>>

\* get_bridge_status: lock, clone, unlock
get_bridge_status ==
    /\ bridge.lock = "free"
    /\ bridge' = [bridge EXCEPT !.response = Some(bridge.status)]
    /\ UNCHANGED <<usage_task, wallets, network, pgu64>>

NextBridge ==
    \/ BridgeLock
    \/ GetBridgeOperatorsOk
    \/ GetBridgeOperatorsErr
    \/ GetCurrentDepositsOk
    \/ GetDepositInfoPanics
    \/ GetCurrentDepositsErr
    \/ GetWithdrawals
    \/ GetReimbursements
    \/ get_bridge_status

BridgeSpec == InitBridge /\ [][NextBridge]_vars

-----------------------------------------------------------------------------
(* The wallet balance task and its read handler (wallets.rs) *)

\* u128 holds BalanceBits bits here
BalanceBits == 8
BalanceMax == 2^BalanceBits - 1

LowerDigits == <<"0", "1", "2", "3", "4", "5", "6", "7", "8", "9",
                 "a", "b", "c", "d", "e", "f">>
UpperDigits == <<"A", "B", "C", "D", "E", "F">>

\* char::to_digit(16)
to_digit(c) ==
    IF \E i \in 1..Len(LowerDigits) : LowerDigits[i] = c
    THEN Some((CHOOSE i \in 1..Len(LowerDigits) : LowerDigits[i] = c) - 1)
    ELSE IF \E i \in 1..Len(UpperDigits) : UpperDigits[i] = c
    THEN Some((CHOOSE i \in 1..Len(UpperDigits) : UpperDigits[i] = c) + 9)
    ELSE None

\* the digits of from_str_radix, most significant first: an invalid digit or
\* a value past the type's maximum is an Err
RECURSIVE from_digits(_, _)
from_digits(digits, acc) ==
    IF digits = <<>> THEN Some(acc)
    ELSE LET d == to_digit(Head(digits))
         IN  IF d = None THEN None
             ELSE IF acc * 16 + d[1] > BalanceMax THEN None
             ELSE from_digits(Tail(digits), acc * 16 + d[1])

\* u128::from_str_radix(src, 16): Ok as Some, Err as None
from_str_radix(src) ==
    IF src = <<>> THEN None
    ELSE IF Len(src) = 1 /\ src[1] \in {"+", "-"} THEN None
    ELSE IF src[1] = "+" THEN from_digits(Tail(src), 0)
    ELSE from_digits(src, 0)

\* balance_wei.to_string(): the decimal digits
RECURSIVE to_string(_)
to_string(n) ==
    IF n < 10 THEN <<LowerDigits[n + 1]>>
    ELSE Append(to_string(n \div 10), LowerDigits[(n % 10) + 1])

\* balance_hex.starts_with("0x")
starts_with_0x(balance_hex) ==
    Len(balance_hex) >= 2 /\ balance_hex[1] = "0" /\ balance_hex[2] = "x"

\* the request failed
RpcError == <<"error">>

\* what eth_getBalance may answer
BalanceResponses ==
    {RpcError,
     JsonNumber(26),
     JsonString(<<"1", "a">>),
     JsonString(<<"0", "x">>),
     JsonString(<<"0", "x", "z">>),
     JsonString(<<"0", "x", "1", "0", "0">>),
     JsonString(<<"0", "x", "0">>),
     JsonString(<<"0", "x", "1", "a">>),
     JsonString(<<"0", "x", "F", "f">>)}

\* fetch_wallet_balance, from the response of the request on
fetch_wallet_balance(answer) ==
    IF answer[1] = "string" /\ starts_with_0x(answer[2])
    THEN LET balance_wei == from_str_radix(SubSeq(answer[2], 3, Len(answer[2])))
         IN  IF balance_wei # None THEN Some(to_string(balance_wei[1])) ELSE None
    ELSE None

\* `balance.clone().unwrap_or_else(|| "0".to_string())`
unwrap_or_zero(balance) == IF balance = None THEN ZeroString ELSE balance[1]

\* mutant of LogUpdatedBalances: the statement prints the options as they are
LogUpdatedBalancesNoUnwrap(state) ==
    [state EXCEPT !.lock = "free", !.pc = "tick", !.rounds = @ + 1]

\* `info!("... {:?}, {:?}", balance_dep.unwrap(), balance_val.unwrap())` and the
\* end of the loop body: the arguments are evaluated when the record is
\* enabled, an unwrap of None panics, and the guard is dropped either way
LogUpdatedBalances(state) ==
    IF state.info /\ (state.balance_dep = None \/ state.balance_val = None)
    THEN [state EXCEPT !.lock = "free", !.pc = "dead"]
    ELSE [state EXCEPT !.lock = "free", !.pc = "tick", !.rounds = @ + 1]

InitWallets ==
    /\ UsageIdle
    /\ bridge = BridgeStart({}, {})
    /\ \E info \in BOOLEAN : wallets = WalletsStart(info)
    /\ network = NetworkStart
    /\ pgu64 = PgStart(0, 0, 0)

\* `interval.tick().await; let mut locked_wallets = wallets.lock().await;`
WalletsLock ==
    /\ wallets.pc = "tick"
    /\ wallets.lock = "free"
    /\ wallets.rounds < MaxCycles
    /\ wallets' = [wallets EXCEPT !.lock = "task", !.pc = "deposit"]
    /\ UNCHANGED <<usage_task, bridge, network, pgu64>>

\* the deposit wallet: fetch, then update_balance
FetchDepositBalance ==
    /\ wallets.pc = "deposit"
    /\ \E answer \in BalanceResponses :
        LET balance_dep == fetch_wallet_balance(answer)
        IN  wallets' = [wallets EXCEPT !.balance_dep = balance_dep,
                                       !.deposit = unwrap_or_zero(balance_dep),
                                       !.missed = @ \/ balance_dep = None,
                                       !.pc = "validating"]
    /\ UNCHANGED <<usage_task, bridge, network, pgu64>>

\* the validating wallet: fetch, then update_balance, then the log statement
FetchValidatingBalance ==
    /\ wallets.pc = "validating"
    /\ \E answer \in BalanceResponses :
        LET balance_val == fetch_wallet_balance(answer)
        IN  wallets' = LogUpdatedBalances(
                [wallets EXCEPT !.balance_val = balance_val,
                                !.validating = unwrap_or_zero(balance_val),
                                !.missed = @ \/ balance_val = None])
    /\ UNCHANGED <<usage_task, bridge, network, pgu64>>

\* the read handler: `wallets.lock().await`, then the wallets as JSON
get_wallets_with_balances ==
    /\ wallets.lock = "free"
    /\ wallets' = [wallets EXCEPT !.response =
                        Some([deposit |-> wallets.deposit, validating |-> wallets.validating])]
    /\ UNCHANGED <<usage_task, bridge, network, pgu64>>

NextWallets ==
    \/ WalletsLock
    \/ FetchDepositBalance
    \/ FetchValidatingBalance
    \/ get_wallets_with_balances

WalletSpec == InitWallets /\ [][NextWallets]_vars

-----------------------------------------------------------------------------
(* The network status task and its read handler (main.rs) *)

\* what strata_syncStatus may answer
SyncStatusAnswers ==
    {RpcError,
     JsonObject([tip_height |-> JsonNumber(1)]),
     JsonObject([tip_height |-> JsonNull]),
     JsonObject([error |-> JsonNull]),
     JsonNumber(1)}

\* call_rpc_status, from the answer to its request on
call_rpc_status(answer) ==
    IF answer[1] = "object" /\ "tip_height" \in DOMAIN answer[2]
    THEN "Online" ELSE "Offline"

\* the request to /health failed
SendError == <<"send error">>
\* a response whose text cannot be read: unwrap_or_default() makes it ""
Unreadable == <<"unreadable">>
Body(text) == <<"body", text>>

\* what the bundler's /health may answer
HealthAnswers ==
    {SendError, Unreadable, Body(<<"o", "k">>), Body(<<"n", "o", "k">>), Body(<<"d", "o", "w", "n">>)}

\* str::contains
contains(text, pattern) ==
    \E i \in 1..(Len(text) + 1) :
        /\ i + Len(pattern) - 1 <= Len(text)
        /\ SubSeq(text, i, i + Len(pattern) - 1) = pattern

\* check_bundler_health, from the answer to its request on
check_bundler_health(answer) ==
    IF answer = SendError THEN "Offline"
    ELSE LET body == IF answer = Unreadable THEN <<>> ELSE answer[2]
         IN  IF contains(body, <<"o", "k">>) THEN "Online" ELSE "Offline"

\* `let new_status = NetworkStatus { batch_producer, rpc_endpoint, bundler_endpoint }`
NewStatus(probed) ==
    [batch_producer |-> probed[1], rpc_endpoint |-> probed[2], bundler_endpoint |-> probed[3]]

InitNetwork ==
    /\ UsageIdle
    /\ bridge = BridgeStart({}, {})
    /\ wallets = WalletsStart(TRUE)
    /\ network = NetworkStart
    /\ pgu64 = PgStart(0, 0, 0)

\* `interval.tick().await`
NetworkTick ==
    /\ network.pc = "tick"
    /\ Len(network.rounds) < MaxCycles
    /\ network' = [network EXCEPT !.pc = "batch_producer", !.probed = <<>>]
    /\ UNCHANGED <<usage_task, bridge, wallets, pgu64>>

\* `call_rpc_status(&rpc_client).await`, for batch_producer and then for
\* rpc_endpoint
CallRpcStatus ==
    /\ network.pc \in {"batch_producer", "rpc_endpoint"}
    /\ \E answer \in SyncStatusAnswers :
        network' = [network EXCEPT
                        !.probed = Append(@, call_rpc_status(answer)),
                        !.pc = IF @ = "batch_producer" THEN "rpc_endpoint"
                               ELSE "bundler_endpoint"]
    /\ UNCHANGED <<usage_task, bridge, wallets, pgu64>>

\* `check_bundler_health(&http_client, config).await`
CheckBundlerHealth ==
    /\ network.pc = "bundler_endpoint"
    /\ \E answer \in HealthAnswers :
        network' = [network EXCEPT
                        !.probed = Append(@, check_bundler_health(answer)),
                        !.pc = "lock"]
    /\ UNCHANGED <<usage_task, bridge, wallets, pgu64>>

\* `let mut locked_state = state.lock().await;`
NetworkLock ==
    /\ network.pc = "lock"
    /\ network.lock = "free"
    /\ network' = [network EXCEPT !.lock = "task", !.pc = "assign"]
    /\ UNCHANGED <<usage_task, bridge, wallets, pgu64>>

\* mutant of AssignStatus: one field is written each time the lock is held
AssignStatusFieldByField ==
    /\ network.pc = "assign"
    /\ LET new_status == NewStatus(network.probed)
           field == IF network.status.batch_producer # new_status.batch_producer
                    THEN "batch_producer"
                    ELSE IF network.status.rpc_endpoint # new_status.rpc_endpoint
                    THEN "rpc_endpoint"
                    ELSE "bundler_endpoint"
           written == [network.status EXCEPT ![field] = new_status[field]]
       IN  network' = IF written = new_status
                      THEN [network EXCEPT !.status = written, !.lock = "free",
                                           !.pc = "tick",
                                           !.rounds = Append(@, new_status)]
                      ELSE [network EXCEPT !.status = written, !.lock = "free",
                                           !.pc = "lock"]
    /\ UNCHANGED <<usage_task, bridge, wallets, pgu64>>

\* `*locked_state = new_status;` and the end of the loop body, where the guard
\* is dropped
AssignStatus ==
    /\ network.pc = "assign"
    /\ network' = [network EXCEPT !.status = NewStatus(network.probed),
                                   !.lock = "free", !.pc = "tick",
                                   !.rounds = Append(@, NewStatus(network.probed))]
    /\ UNCHANGED <<usage_task, bridge, wallets, pgu64>>

\* the read handler: `state.lock().await.clone()`
get_network_status ==
    /\ network.lock = "free"
    /\ network' = [network EXCEPT !.response = Some(network.status)]
    /\ UNCHANGED <<usage_task, bridge, wallets, pgu64>>

NextNetwork ==
    \/ NetworkTick
    \/ CallRpcStatus
    \/ CheckBundlerHealth
    \/ NetworkLock
    \/ AssignStatus
    \/ get_network_status

NetworkSpec == InitNetwork /\ [][NextNetwork]_vars

-----------------------------------------------------------------------------
(* PgU64 and its conversions (pgu64.rs) *)

\* u64 and i64 hold PgBits bits here; i128 holds every value that comes up
PgBits == 4
U64 == 0..(2^PgBits - 1)
I64 == (0 - 2^(PgBits - 1))..(2^(PgBits - 1) - 1)

\* `2_i128.pow(63)`, for the width above
Offset == 2^(PgBits - 1)

\* `as i64` of an i128: the low bits, read as two's complement
as_i64(n) ==
    LET low == n % 2^PgBits
    IN  IF low >= 2^(PgBits - 1) THEN low - 2^PgBits ELSE low

\* `as u64` of an i128: the low bits
as_u64(n) == n % 2^PgBits

\* mutant of to_i64: a cast and no offset
to_i64_cast(value) == as_i64(value)

\* PgU64::to_i64: `(self.0 as i128 - 2_i128.pow(63)) as i64`
to_i64(value) == as_i64(value - Offset)

\* mutant of from_i64: a cast and no offset
from_i64_cast(value) == as_u64(value)

\* PgU64::from_i64: `PgU64((value as i128 + 2_i128.pow(63)) as u64)`
from_i64(value) == as_u64(value + Offset)

InitPg ==
    /\ UsageIdle
    /\ bridge = BridgeStart({}, {})
    /\ wallets = WalletsStart(TRUE)
    /\ network = NetworkStart
    /\ \E x \in U64, z \in U64, y \in I64 : pgu64 = PgStart(x, z, y)

\* to_i64 on the values that are PgU64 by now
ToI64 ==
    /\ \/ /\ pgu64.pc = "start"
          /\ pgu64' = [pgu64 EXCEPT !.x_i64 = Some(to_i64(pgu64.x)),
                                     !.z_i64 = Some(to_i64(pgu64.z)),
                                     !.pc = "stored"]
       \/ /\ pgu64.pc = "loaded"
          /\ pgu64' = [pgu64 EXCEPT !.y_back = Some(to_i64(pgu64.y_u64[1])),
                                     !.pc = "done"]
    /\ UNCHANGED <<usage_task, bridge, wallets, network>>

\* from_i64 on the values that are i64
FromI64 ==
    /\ pgu64.pc = "stored"
    /\ pgu64' = [pgu64 EXCEPT !.x_back = Some(from_i64(pgu64.x_i64[1])),
                               !.y_u64 = Some(from_i64(pgu64.y)),
                               !.pc = "loaded"]
    /\ UNCHANGED <<usage_task, bridge, wallets, network>>

NextPg ==
    \/ ToI64
    \/ FromI64

PgSpec == InitPg /\ [][NextPg]_vars

-----------------------------------------------------------------------------
(* What the claims speak about *)

\* a refresh cycle has ended and the next has not begun
AtCycleEnd == pc = "tick" /\ cycle >= 1

ZeroSnapshot == [stats |-> DefaultStats, selected_accounts |-> DefaultSelectedAccounts]

\* the operation records of the pages fetched successfully in this cycle
FetchedOps == BagToSet(ops_log.records)

\* record r has a timestamp that parses and lies in window w of this cycle
FallsIn(w, r) ==
    /\ Len(r.timestamp) = 2
    /\ r.timestamp[1] = "rfc3339"
    /\ now - to_duration(w, now) <= r.timestamp[2]

RECURSIVE Total(_, _, _)
\* the sum over the records of S falling in w, with multiplicity, of 1 (what = "count")
\* or of the record's cost (what = "cost")
Total(S, w, what) ==
    IF S = {} THEN 0
    ELSE LET r == CHOOSE x \in S : TRUE
             each == IF what = "cost" THEN r.gas_used ELSE 1
         IN  (IF FallsIn(w, r) THEN each * CopiesIn(r, ops_log.records) ELSE 0)
                + Total(S \ {r}, w, what)

SendersIn(w) == {r.sender : r \in {x \in FetchedOps : FallsIn(w, x)}}

\* all accounts of the pages fetched successfully in this cycle, in order
RECURSIVE Concat(_)
Concat(pages) == IF pages = <<>> THEN <<>> ELSE Head(pages) \o Concat(Tail(pages))

FetchedAccounts == Concat(acc_log.pages)

Parses(ts) == Len(ts) = 2 /\ ts[1] = "rfc3339"

-----------------------------------------------------------------------------
(* C1: a snapshot returned by the read handler is the snapshot the most recently
   completed refresh cycle left behind, or the zero snapshot if none has
   completed; a reader never sees the middle of a cycle. *)
C1_ReadsSeeCommittedSnapshot ==
    response # None => response[1].snapshot = response[1].committed

\* a read returned the non-zero result of a completed cycle, and a later cycle
\* is now in progress with different counters
C1_Witness ==
    /\ response # None
    /\ response[1].snapshot # ZeroSnapshot
    /\ lock = "writer"
    /\ stats # response[1].snapshot.stats

(* C2: after a refresh cycle the cost-used counter of every window is the sum of
   the cost values of the fetched records that fall in the window. *)
C2_CostUsedIsSumOfCosts ==
    AtCycleEnd => \A w \in TimeWindows : stats["GasUsed"][w] = Total(FetchedOps, w, "cost")

(* C3: after a refresh cycle the operation-count counter of every window is the
   number of fetched records, with multiplicity and over all pages fetched
   successfully, whose timestamp parses and lies in the window. *)
C3_OperationCountPerWindow ==
    AtCycleEnd => \A w \in TimeWindows : stats["UserOps"][w] = Total(FetchedOps, w, "count")

\* two pages were fetched; one record lies in every window, another has a
\* timestamp that parses and lies in no window
C3_Witness ==
    /\ AtCycleEnd
    /\ ops_log.ok = 2
    /\ \A w \in TimeWindows : stats["UserOps"][w] = 1
    /\ \E r \in FetchedOps : Parses(r.timestamp) /\ \A w \in TimeWindows : ~FallsIn(w, r)

(* C4: after a refresh cycle the unique-active-entities counter of every window
   is the number of distinct senders among the fetched records that fall in the
   window, however many operations each sender has. *)
C4_UniqueSendersPerWindow ==
    AtCycleEnd =>
        \A w \in TimeWindows : stats["UniqueActiveAccounts"][w] = Cardinality(SendersIn(w))

\* one sender with two operations in the last 30 days, one of them in the last
\* 24 hours
C4_Witness ==
    /\ AtCycleEnd
    /\ stats["UserOps"]["Last30Days"] = 2
    /\ stats["UserOps"]["Last24Hours"] = 1
    /\ stats["UniqueActiveAccounts"]["Last30Days"] = 1
    /\ stats["UniqueActiveAccounts"]["Last24Hours"] = 1

(* C5 as stated: if the first page fetch of the operations source fails, every
   stat counter holds at the end of the cycle the value it had before the cycle. *)
C5_FailedOpsKeepCounters ==
    (AtCycleEnd /\ ops_log.failed /\ ops_log.ok = 0) => stats = pre.stats

(* C5 as amended: if the first page fetch of the operations source fails, every
   stat counter of every window is zero at the end of the cycle. *)
C5_FailedOpsZeroCounters ==
    (AtCycleEnd /\ ops_log.failed /\ ops_log.ok = 0) =>
        \A s \in StatNames, w \in TimeWindows : stats[s][w] = 0

\* the first fetch failed in a cycle that began with non-zero counters
C5_Witness ==
    /\ AtCycleEnd
    /\ ops_log.failed
    /\ ops_log.ok = 0
    /\ \E s \in StatNames, w \in TimeWindows : pre.stats[s][w] > 0

(* C6: if the first page fetch of the accounts source fails, the recently-created
   selection holds at the end of the cycle the value it had before the cycle. *)
C6_FailedAccountsKeepRecent ==
    (AtCycleEnd /\ acc_log.failed /\ acc_log.ok = 0) =>
        selected_accounts["Recent"] = pre.selected_accounts["Recent"]

\* the first fetch failed in a cycle that began with a non-empty selection
C6_Witness ==
    /\ AtCycleEnd
    /\ acc_log.failed
    /\ acc_log.ok = 0
    /\ pre.selected_accounts["Recent"] # <<>>

(* C7: if page k+1 of the operations source fails after pages 1..k succeeded, the
   failing request is the last one sent to that source in the cycle, and the
   counters written at the end of the cycle are those of pages 1..k. *)
C7_PartialPagesKept ==
    (AtCycleEnd /\ ops_log.failed /\ ops_log.ok >= 1) =>
        /\ Len(ops_log.requests) = ops_log.ok + 1
        /\ \A w \in TimeWindows :
            /\ stats["UserOps"][w] = Total(FetchedOps, w, "count")
            /\ stats["UniqueActiveAccounts"][w] = Cardinality(SendersIn(w))

\* page 2 failed after page 1 brought a record that was counted
C7_Witness ==
    /\ AtCycleEnd
    /\ ops_log.failed
    /\ ops_log.ok = 1
    /\ stats["UserOps"]["Last24Hours"] >= 1
    /\ stats["UniqueActiveAccounts"]["Last24Hours"] >= 1

(* C8: after a cycle in which the accounts source was drained over one or more
   pages, the recently-created selection holds the min(5, n) latest of all n
   accounts with non-empty timestamps of all pages, latest first. *)
C8_RecentOverAllPages ==
    (AtCycleEnd /\ ~acc_log.failed /\ acc_log.ok >= 1) =>
        LET all == WithTimestamp(FetchedAccounts)
            sel == selected_accounts["Recent"]
        IN  /\ Len(sel) = Min(TopN, Len(all))
            /\ \A i \in 1..Len(sel) : \E j \in 1..Len(all) : sel[i] = all[j]
            /\ \A i \in 1..Len(sel), j \in 1..Len(sel) :
                (i < j /\ Parses(sel[i].creation_timestamp) /\ Parses(sel[j].creation_timestamp))
                    => sel[i].creation_timestamp[2] >= sel[j].creation_timestamp[2]

(* C9: every selection of the snapshot has at most 5 entries, in every state. *)
C9_SelectionsAtMostTopN ==
    \A k \in SelectAccountsBy : Len(selected_accounts[k]) <= TopN

\* both selections were cut down from more than 5 candidates
C9_Witness ==
    /\ AtCycleEnd
    /\ Len(selected_accounts["Recent"]) = TopN
    /\ Len(selected_accounts["TopGasConsumers24h"]) = TopN
    /\ Cardinality(DOMAIN gas_usage) > TopN
    /\ Len(FetchedAccounts) > TopN

(* C10 as stated: in every selection consecutive entries are strictly descending
   in the ranking key: creation timestamp for the recently-created selection,
   24h cost total for the top-cost-consumers selection. *)
C10_StrictlyDescending ==
    /\ LET sel == selected_accounts["Recent"]
       IN  \A i \in 1..(Len(sel) - 1) :
            (Parses(sel[i].creation_timestamp) /\ Parses(sel[i + 1].creation_timestamp))
                => sel[i].creation_timestamp[2] > sel[i + 1].creation_timestamp[2]
    /\ LET sel == selected_accounts["TopGasConsumers24h"]
       IN  \A i \in 1..(Len(sel) - 1) : sel[i].gas_used > sel[i + 1].gas_used

(* C10 as amended: in every selection the entries are in non-increasing order of
   the ranking key, equal keys allowed: for the recently-created selection among
   the entries whose creation timestamp parses, for the top-cost-consumers
   selection among all entries. *)
C10_NonIncreasing ==
    /\ LET sel == selected_accounts["Recent"]
       IN  \A i \in 1..Len(sel), j \in 1..Len(sel) :
            (i < j /\ Parses(sel[i].creation_timestamp) /\ Parses(sel[j].creation_timestamp))
                => sel[i].creation_timestamp[2] >= sel[j].creation_timestamp[2]
    /\ LET sel == selected_accounts["TopGasConsumers24h"]
       IN  \A i \in 1..(Len(sel) - 1) : sel[i].gas_used >= sel[i + 1].gas_used

\* a top-cost-consumers selection with a tie and a strict step
C10_Witness ==
    LET sel == selected_accounts["TopGasConsumers24h"]
    IN  /\ Len(sel) = TopN
        /\ \E i \in 1..(Len(sel) - 1) : sel[i].gas_used = sel[i + 1].gas_used
        /\ \E i \in 1..(Len(sel) - 1) : sel[i].gas_used > sel[i + 1].gas_used

(* C11: in every reachable state, whatever fetches failed, the snapshot has an
   entry for every (stat label, window label) pair and an entry for every
   selection label. *)
C11_EveryLabelHasAnEntry ==
    /\ StatNames \subseteq DOMAIN stats
    /\ \A s \in StatNames : TimeWindows \subseteq DOMAIN stats[s]
    /\ SelectAccountsBy \subseteq DOMAIN selected_accounts

\* the second cycle is under way and its operations fetch failed; the first
\* cycle had counted operations and stored no recent account
C11_Witness ==
    /\ cycle = 2
    /\ pc = "accounts"
    /\ ops_log.failed
    /\ pre.selected_accounts["Recent"] = <<>>
    /\ \E w \in TimeWindows : pre.stats["UserOps"][w] > 0

(* C12: the snapshot built at construction maps every (stat label, window label)
   pair to 0 and every selection label to the empty sequence. *)
C12_DefaultSnapshotIsZero ==
    cycle = 0 =>
        /\ \A s \in StatNames, w \in TimeWindows : stats[s][w] = 0
        /\ \A k \in SelectAccountsBy : selected_accounts[k] = <<>>

\* a client read the snapshot before the first cycle and got zeros
C12_Witness ==
    /\ cycle = 0
    /\ response # None
    /\ \A s \in StatNames, w \in TimeWindows : response[1].snapshot.stats[s][w] = 0
    /\ \A k \in SelectAccountsBy : response[1].snapshot.selected_accounts[k] = <<>>

(* C13: a snapshot returned by a read is an independent copy: no step of a
   refresh cycle changes a value already returned; the value a reader holds
   changes only when a new read replaces it, and that read writes nothing. *)
C13_ReturnedCopyIsIndependent ==
    [][response' # response =>
        /\ reader = "waiting" /\ reader' = "idle"
        /\ stats' = stats /\ selected_accounts' = selected_accounts
        /\ pc' = pc]_vars

\* a reader holds the non-zero result of the first cycle while the second
\* cycle has finished with other counters and another selection
C13_Witness ==
    /\ response # None
    /\ reader = "idle"
    /\ cycle = 2
    /\ pc = "tick"
    /\ \E w \in TimeWindows : response[1].snapshot.stats["UserOps"][w] > 0
    /\ response[1].snapshot.stats # stats
    /\ response[1].snapshot.selected_accounts["Recent"] # selected_accounts["Recent"]

\* a step that writes the snapshot
WritesSnapshot == stats' # stats \/ selected_accounts' # selected_accounts

(* C14: at most one refresh cycle holds write access at a time, no reader holds
   access while a cycle holds it, and every write of cycle K happens before every
   write of cycle K+1: the snapshot is written only by steps that take or hold
   the write lock, the lock is taken only when free and by the start of a new
   cycle, a cycle ends only by releasing it, and a read completes only on steps
   that begin and end with the lock free. *)
C14_SingleWriterInCycleOrder ==
    [][/\ WritesSnapshot => (lock' = "writer" \/ lock = "writer")
       /\ WritesSnapshot => (lock = "writer" => cycle' = cycle)
       /\ lock' = "writer" /\ lock = "free" => pc = "lock" /\ pc' = "user_ops"
       /\ lock = "writer" /\ lock' = "free" => pc = "accounts" /\ pc' = "tick"
       /\ pc \in {"user_ops", "accounts"} => lock = "writer"
       /\ (cycle < MaxCycles /\ pc = "lock" /\ pc' # pc) => cycle' = cycle + 1
       /\ pc # "lock" => cycle' = cycle
       /\ response' # response => lock = "free" /\ lock' = "free" /\ ~WritesSnapshot]_vars

\* the second cycle holds the lock and has written, while a reader that asked
\* during this cycle waits with the first cycle's result in hand
C14_Witness ==
    /\ cycle = 2
    /\ lock = "writer"
    /\ pc = "accounts"
    /\ stats # pre.stats
    /\ reader = "waiting"
    /\ response # None
    /\ response[1].snapshot = pre

(* C15: a failing source never abandons the cycle or the task.  After a failed
   operations fetch, on any page, the task goes on to the accounts source with
   the lock still held; once it has left the accounts loop the accounts source
   was queried, the top-cost-consumers selection was written from the tallies
   of the pages that succeeded, the lock is free and the task is back at the
   tick.  A failed accounts fetch leaves the operations results in place. *)
C15_FailureKeepsCycleGoing ==
    /\ (ops_log.failed /\ pc = "accounts") => lock = "writer"
    /\ (ops_log.failed /\ pc # "accounts") =>
        /\ pc \in {"tick", "lock"}
        /\ lock = "free"
        /\ Len(acc_log.requests) >= 1
    /\ (ops_log.failed /\ AtCycleEnd) =>
        LET sel == selected_accounts["TopGasConsumers24h"]
            recent == SendersIn("Last24Hours")
        IN  /\ Len(sel) = Min(TopN, Cardinality(recent))
            /\ \A i \in 1..Len(sel) : sel[i].address \in recent
    /\ (AtCycleEnd /\ acc_log.failed) =>
        \A w \in TimeWindows :
            /\ stats["UserOps"][w] = Total(FetchedOps, w, "count")
            /\ stats["UniqueActiveAccounts"][w] = Cardinality(SendersIn(w))

\* both sources failed on their second page: the cycle ended with the first
\* page's operations counted, their senders ranked and the first page's
\* accounts selected
C15_Witness ==
    /\ AtCycleEnd
    /\ lock = "free"
    /\ ops_log.failed /\ ops_log.ok = 1
    /\ acc_log.failed /\ acc_log.ok = 1
    /\ stats["UserOps"]["Last24Hours"] >= 1
    /\ pre.selected_accounts["TopGasConsumers24h"] = <<>>
    /\ selected_accounts["TopGasConsumers24h"] # <<>>
    /\ selected_accounts["Recent"] # <<>>

\* the first instant of the year of t, and the number of t's day in that year
FirstOfYear(t) == (t \div DaysPerYear) * DaysPerYear
DayNumber(t) == Cardinality({d \in Instants : FirstOfYear(t) <= d /\ d <= t})

(* C16: for every instant now, to_duration gives 1 day for Last24Hours, 30 days
   for Last30Days and, for YearToDate, the number of now's day within its year,
   which is 1 on January 1. *)
C16_DurationOfEachWindow ==
    time_windows # None =>
        /\ time_windows["Last24Hours"] = 1
        /\ time_windows["Last30Days"] = 30
        /\ time_windows["YearToDate"] = DayNumber(now)
        /\ (now = FirstOfYear(now) => time_windows["YearToDate"] = 1)

\* the windows were computed on January 1 of the second year
C16_Witness ==
    /\ time_windows # None
    /\ now = DaysPerYear
    /\ time_windows["YearToDate"] = 1

\* item has an address object with a string hash field
HasStringHash(item) ==
    /\ item.address # Absent
    /\ item.address[1] = "object"
    /\ \E f \in DOMAIN item.address[2] : f = "hash" /\ item.address[2][f][1] = "string"

\* item has a fee that is a decimal string of a value that fits u64
FeeFitsU64(item) ==
    /\ item.fee # Absent
    /\ item.fee[1] = "string"
    /\ item.fee[2] \notin {NotDecimal, DecimalBeyondU64}

\* the cost of the fetched records of sender s in the last 24 hours
CostOf(s) == Total({r \in FetchedOps : r.sender = s}, "Last24Hours", "cost")

(* C17: a page with an item whose address lacks a string hash (or is absent), or
   whose fee is not a decimal string that fits u64, fails as a whole: no page
   that was accepted holds such an item; the request of a rejected page is the
   last one sent to that source in the cycle; and at the end of the cycle the
   counters, the unique-sender counts and the cost tally are those of the
   accepted pages alone. *)
C17_BadItemFailsThePage ==
    /\ \A item \in ops_log.accepted : HasStringHash(item) /\ FeeFitsU64(item)
    /\ \A item \in acc_log.accepted : HasStringHash(item)
    /\ ops_log.rejected # None => Len(ops_log.requests) = ops_log.ok + 1
    /\ acc_log.rejected # None => Len(acc_log.requests) = acc_log.ok + 1
    /\ (AtCycleEnd /\ ops_log.rejected # None) =>
        /\ \A w \in TimeWindows :
            /\ stats["UserOps"][w] = Total(FetchedOps, w, "count")
            /\ stats["UniqueActiveAccounts"][w] = Cardinality(SendersIn(w))
        /\ DOMAIN gas_usage = SendersIn("Last24Hours")
        /\ \A s \in DOMAIN gas_usage : gas_usage[s] = CostOf(s)

\* the first page held a well-formed item of the last 24 hours next to one
\* that does not decode: the cycle ended with nothing counted
C17_Witness ==
    /\ AtCycleEnd
    /\ ops_log.rejected # None
    /\ ops_log.ok = 0
    /\ \E i, j \in DOMAIN ops_log.rejected[1] :
        /\ IsOk(DecodeUserOp(ops_log.rejected[1][i]))
        /\ ~FeeFitsU64(ops_log.rejected[1][j])
    /\ \A w \in TimeWindows : stats["UserOps"][w] = 0
    /\ selected_accounts["TopGasConsumers24h"] = <<>>

\* item is an account whose only peculiarity may be a creation_timestamp that
\* is null or absent
TimestampStringNullOrAbsent(item) ==
    /\ HasStringHash(item)
    /\ item.creation_timestamp[1] \in {"string", "null", "absent"}
    /\ item.gas_used = Absent

(* C18: an account item whose creation_timestamp is null and one in which the
   field is absent both decode, to an account with the empty string as creation
   timestamp; neither makes the page fail: a page of items that are well-formed
   but for a null or absent creation_timestamp is never rejected, and every
   accepted item with a null or absent creation_timestamp is in the decoded
   page with an empty creation timestamp. *)
C18_NullOrAbsentTimestampDecodes ==
    /\ acc_log.rejected # None =>
        \E i \in DOMAIN acc_log.rejected[1] :
            ~TimestampStringNullOrAbsent(acc_log.rejected[1][i])
    /\ \A item \in acc_log.accepted :
        item.creation_timestamp \in {JsonNull, Absent} =>
            \E i \in DOMAIN FetchedAccounts :
                FetchedAccounts[i].creation_timestamp = EmptyString

(* C19: every read request is eventually answered with a snapshot, given that
   every cycle that starts ends and that the lock is granted fairly. *)
C19_EveryReadIsAnswered ==
    (reader = "waiting") ~> (reader = "idle" /\ response # None)

\* a request waits while a cycle holds the lock, after an earlier request was
\* answered
C19_Witness ==
    /\ reader = "waiting"
    /\ lock = "writer"
    /\ response # None
    /\ cycle = MaxCycles

\* the senders with a fetched record whose timestamp t satisfies now - 1 day <= t
QualifyingSenders ==
    {r.sender : r \in {x \in FetchedOps : Parses(x.timestamp) /\ now - 1 <= x.timestamp[2]}}

(* C20: after every cycle the top-cost-consumers selection has one entry per
   sender with a fetched record of the last 24 hours, at most 5 of them, each
   with an empty creation timestamp and with gas_used the sum of the costs of
   that sender's records of the last 24 hours, in descending order of that sum;
   a sender left out has a sum no larger than any sum in the selection. *)
C20_TopCostConsumers ==
    AtCycleEnd =>
        LET sel == selected_accounts["TopGasConsumers24h"]
            chosen == {sel[i].address : i \in 1..Len(sel)}
        IN  /\ Len(sel) = Min(TopN, Cardinality(QualifyingSenders))
            /\ Cardinality(chosen) = Len(sel)
            /\ chosen \subseteq QualifyingSenders
            /\ \A i \in 1..Len(sel) :
                /\ sel[i].creation_timestamp = EmptyString
                /\ sel[i].gas_used = CostOf(sel[i].address)
            /\ \A i \in 1..(Len(sel) - 1) : sel[i].gas_used >= sel[i + 1].gas_used
            /\ \A s \in QualifyingSenders \ chosen :
                \A i \in 1..Len(sel) : CostOf(s) <= sel[i].gas_used

\* six senders qualify and the one with the smallest sum is left out
C20_Witness ==
    /\ AtCycleEnd
    /\ Cardinality(QualifyingSenders) > TopN
    /\ Len(selected_accounts["TopGasConsumers24h"]) = TopN
    /\ \E s \in QualifyingSenders :
        /\ \A i \in 1..TopN : selected_accounts["TopGasConsumers24h"][i].address # s
        /\ \A i \in 1..TopN : selected_accounts["TopGasConsumers24h"][i].gas_used > CostOf(s)

\* the place of x in a sequence without repetitions
IndexOf(seq, x) == CHOOSE i \in 1..Len(seq) : seq[i] = x

(* C21 as stated: senders whose 24h totals are equal stand in the top-cost
   selection in the order in which the per-sender map yielded them. *)
C21_TiesInYieldedOrder ==
    AtCycleEnd =>
        LET sel == selected_accounts["TopGasConsumers24h"]
        IN  \A i, j \in 1..Len(sel) :
                i < j /\ sel[i].gas_used = sel[j].gas_used =>
                    IndexOf(acc_log.yielded, sel[i].address)
                        < IndexOf(acc_log.yielded, sel[j].address)

(* C21: senders whose 24h totals are equal stand in the top-cost selection in
   the reverse of the order in which the per-sender map yielded them (the
   ascending sort is stable and the whole list is then reversed); the order
   the map yields is any order, not the order of insertion. *)
C21_TiesInReverseYieldedOrder ==
    AtCycleEnd =>
        LET sel == selected_accounts["TopGasConsumers24h"]
        IN  \A i, j \in 1..Len(sel) :
                i < j /\ sel[i].gas_used = sel[j].gas_used =>
                    IndexOf(acc_log.yielded, sel[i].address)
                        > IndexOf(acc_log.yielded, sel[j].address)

\* the two leading senders have the same total, the one the map yielded second first
C21_Witness ==
    /\ AtCycleEnd
    /\ LET sel == selected_accounts["TopGasConsumers24h"]
       IN  /\ Len(sel) >= 2
           /\ sel[1].gas_used = sel[2].gas_used
           /\ acc_log.yielded = <<sel[2].address, sel[1].address>>

\* the accounts page the stored recently-created selection was made from
LastAccountsPage == acc_log.pages[Len(acc_log.pages)]

\* the account has a non-empty creation timestamp that does not parse
Unparsed(acc) ==
    /\ acc.creation_timestamp # EmptyString
    /\ parse_from_rfc3339(acc.creation_timestamp) = None

\* the account's creation timestamp parses to an instant before t
ParsedBefore(acc, t) ==
    /\ parse_from_rfc3339(acc.creation_timestamp) # None
    /\ parse_from_rfc3339(acc.creation_timestamp)[1] < t

\* how many entries of a sequence satisfy Unparsed
RECURSIVE CountUnparsed(_)
CountUnparsed(accs) ==
    IF accs = <<>> THEN 0
    ELSE (IF Unparsed(Head(accs)) THEN 1 ELSE 0) + CountUnparsed(Tail(accs))

(* C22: in the recently-created selection an account whose non-empty creation
   timestamp does not parse stands ahead of every account whose timestamp
   parses to an instant before now, and it is kept: as long as no more than
   TopN accounts of the page are unparsed or not earlier than now, every
   unparsed account of the page is in the selection. *)
C22_UnparsedCountsAsNow ==
    acc_log.pages # <<>> =>
        LET sel == selected_accounts["Recent"]
            page == WithTimestamp(LastAccountsPage)
            front == {i \in 1..Len(page) : ~ParsedBefore(page[i], now)}
        IN  /\ \A i, j \in 1..Len(sel) :
                Unparsed(sel[i]) /\ ParsedBefore(sel[j], now) => i < j
            /\ Cardinality(front) <= TopN => CountUnparsed(sel) = CountUnparsed(page)

\* the page lists an account created a day ago before one with a malformed
\* timestamp, and the selection lists them the other way round
C22_Witness ==
    /\ acc_log.pages # <<>>
    /\ Len(LastAccountsPage) = 2
    /\ ParsedBefore(LastAccountsPage[1], now)
    /\ Unparsed(LastAccountsPage[2])
    /\ selected_accounts["Recent"] = <<LastAccountsPage[2], LastAccountsPage[1]>>

(* C23: no account with an empty creation timestamp is ever in the
   recently-created selection, whatever pages the accounts source returns. *)
C23_NoEmptyTimestampInRecent ==
    \A i \in 1..Len(selected_accounts["Recent"]) :
        selected_accounts["Recent"][i].creation_timestamp # EmptyString

\* the page the selection was made from holds an account with an empty
\* creation timestamp and one with a timestamp; only the second is selected
C23_Witness ==
    /\ acc_log.pages # <<>>
    /\ Len(LastAccountsPage) = 2
    /\ LastAccountsPage[1].creation_timestamp = EmptyString
    /\ selected_accounts["Recent"] = <<LastAccountsPage[2]>>

\* the records of the page a step has just added to the log
PageJustFetched == BagToSet(ops_log'.records (-) ops_log.records)

(* C24: an operation record whose timestamp does not parse changes nothing.
   While a cycle runs, the operation counters count the records that parse and
   fall in the window, the unique sets hold the senders of those records and
   the cost tally holds the sums of the parsed records of the last 24 hours; a
   page of unparsed records alone is accepted, leaves counters, sets and tally
   as they were, and the loop goes on exactly if the page came with a token. *)
C24_UnparsedRecordChangesNothing ==
    [][ /\ pc' \in {"user_ops", "accounts"} =>
            /\ \A w \in TimeWindows :
                /\ stats'["UserOps"][w] = Total(FetchedOps, w, "count")'
                /\ stats'["GasUsed"][w] > 0 => SendersIn(w)' # {}
                /\ unique_accounts'[w] = SendersIn(w)'
            /\ DOMAIN gas_usage' = QualifyingSenders'
            /\ \A s \in QualifyingSenders' : gas_usage'[s] = CostOf(s)'
        /\ ( /\ ops_log'.ok = ops_log.ok + 1
             /\ PageJustFetched # {}
             /\ \A r \in PageJustFetched : ~Parses(r.timestamp) ) =>
                /\ \A s \in CountedStats : stats'[s] = stats[s]
                /\ unique_accounts' = unique_accounts
                /\ gas_usage' = gas_usage
                /\ ~ops_log'.failed
                /\ pc' = "user_ops" <=> ops_log'.returned[ops_log'.ok][1] = "string"
      ]_vars

\* a first page with a record that does not parse and one that does was
\* followed by a second page, and the cycle counted the parsed record only
C24_Witness ==
    /\ pc = "accounts"
    /\ ops_log.ok = 2
    /\ ~ops_log.failed
    /\ \E r \in FetchedOps : ~Parses(r.timestamp)
    /\ stats["UserOps"]["Last30Days"] = 1
    /\ Cardinality(QualifyingSenders) = 1

(* C25: for every instant now and every window W, the start_time sent to the
   sources is not later than now - duration(W, now): the fetched range
   [start_time, now] covers every window, year-to-date included. *)
C25_FetchedRangeCoversEveryWindow ==
    time_windows # None =>
        \A w \in TimeWindows : start_time(now) <= now - time_windows[w]

\* the response carries a page token / a page token that is a string
CarriesToken(value) == value # Absent
CarriesString(value) == value # Absent /\ value[1] = "string"

\* the part of a string between its leading and its trailing double quotes
Unquoted(string) ==
    LET quote == "\""
        parts == {<<i, j>> \in (1..(Len(string) + 1)) \X (0..Len(string)) :
                    /\ i <= j + 1
                    /\ \A k \in 1..Len(string) : k < i \/ k > j => string[k] = quote
                    /\ i <= j => string[i] # quote /\ string[j] # quote}
        part == CHOOSE p \in parts : TRUE
    IN  SubSeq(string, part[1], part[2])

\* the log of a source, and whether its pagination loop is running
LogOf(source) == IF source = "user_ops" THEN ops_log ELSE acc_log
Running(source) == pc = source

\* the first request carries no token and every request but a failed one has
\* its response
FirstWithoutToken(log) ==
    /\ Len(log.requests) > 0 => log.requests[1] = None
    /\ Len(log.requests) = log.ok + (IF log.failed THEN 1 ELSE 0)
    /\ Len(log.returned) = log.ok

(* C26 as stated: per cycle and source the first request carries no token,
   request N + 1 carries exactly the token response N returned, and the loop
   ends at the first response that carries no token, or fails. *)
C26_NextRequestCarriesReturnedToken ==
    \A source \in {"user_ops", "accounts"} :
        LET log == LogOf(source) IN
        /\ FirstWithoutToken(log)
        /\ \A n \in 1..(Len(log.requests) - 1) :
            /\ CarriesToken(log.returned[n])
            /\ log.requests[n + 1] = Some(log.returned[n][2])
        /\ ~Running(source) /\ ~log.failed /\ log.ok > 0 => ~CarriesToken(log.returned[log.ok])

(* C26: per cycle and source the first request carries no token; request N + 1
   is sent only after response N, which carried a string token, and carries
   that string without its leading and trailing double quotes; the loop ends
   at the first response that carries no string token, or fails; each cycle
   starts again without a token. *)
C26_NextRequestCarriesUnquotedToken ==
    \A source \in {"user_ops", "accounts"} :
        LET log == LogOf(source) IN
        /\ FirstWithoutToken(log)
        /\ \A n \in 1..(Len(log.requests) - 1) :
            /\ CarriesString(log.returned[n])
            /\ log.requests[n + 1] = Some(Unquoted(log.returned[n][2]))
        /\ ~Running(source) /\ ~log.failed /\ log.ok > 0 => ~CarriesString(log.returned[log.ok])
        /\ Running(source) /\ log.ok > 0 =>
            /\ CarriesString(log.returned[log.ok])
            /\ page_token = Some(Unquoted(log.returned[log.ok][2]))

\* in a second cycle the first response came with a token in double quotes and
\* the second request carried the token without them
C26_Witness ==
    /\ cycle = 2
    /\ Len(ops_log.requests) = 2
    /\ ops_log.requests[1] = None
    /\ \E t \in Tokens :
        /\ ops_log.returned[1] = JsonString(Quoted(t))
        /\ ops_log.requests[2] = Some(Plain(t))

\* the fetched records that parse and fall in window w, with multiplicity
CountedIn(w) ==
    [r \in {x \in FetchedOps : FallsIn(w, x)} |-> CopiesIn(r, ops_log.records)]

\* this cycle saw in every window the records the cycle before it saw there
SameRecordsAsBefore == \A w \in TimeWindows : ops_log.before[w] = CountedIn(w)

(* C27: counters do not accumulate across cycles. Before the first page of a
   cycle is processed every (stat, window) counter is zero; at the end of the
   cycle the operation and unique-entity counters are those of the records
   fetched in this cycle; and a cycle that saw in every window the records the
   cycle before it saw ends with the counters that cycle ended with. *)
C27_CountersDoNotAccumulate ==
    /\ pc = "user_ops" /\ ops_log.ok = 0 =>
        \A s \in StatNames, w \in TimeWindows : stats[s][w] = 0
    /\ AtCycleEnd =>
        \A w \in TimeWindows :
            /\ stats["UserOps"][w] = Total(FetchedOps, w, "count")
            /\ stats["UniqueActiveAccounts"][w] = Cardinality(SendersIn(w))
    /\ AtCycleEnd /\ cycle >= 2 /\ SameRecordsAsBefore =>
        \A s \in StatNames, w \in TimeWindows : stats[s][w] = pre.stats[s][w]

\* the second cycle fetched what the first had fetched, a record of the last
\* 24 hours, and ended with the counters of the first, not with their double
C27_Witness ==
    /\ AtCycleEnd
    /\ cycle = 2
    /\ SameRecordsAsBefore
    /\ \A s \in StatNames : pre.stats[s]["Last24Hours"] = 1
    /\ \A s \in StatNames : stats[s]["Last24Hours"] = 1

(* C28: if every fetch returns and each source in the end answers with an error
   or with a page without a token, every refresh cycle that starts finishes:
   the lock is released and the task waits for the next tick. *)
C28_EveryCycleFinishes ==
    (lock = "writer") ~> (lock = "free" /\ pc = "tick")

\* a cycle ended after both sources had served MaxPages pages or more
C28_Witness ==
    /\ AtCycleEnd
    /\ lock = "free"
    /\ ops_log.ok = MaxPages
    /\ acc_log.ok = MaxPages
    /\ ~ops_log.failed
    /\ ~acc_log.failed

(* C29: when a source returns a token on every page, the cycle that has taken
   the lock never ends: the task stays in a fetch loop, the lock is never
   released, and a read request that waits while the lock is held is never
   answered. *)
C29_EndlessTokensNeverEnd ==
    /\ [](lock = "writer" => [](lock = "writer" /\ pc \in {"user_ops", "accounts"}))
    /\ [](lock = "writer" /\ reader = "waiting" => [](reader = "waiting"))

\* a request waits while the accounts loop has fetched MaxPages pages or more
C29_Witness ==
    /\ lock = "writer"
    /\ pc = "accounts"
    /\ acc_log.ok = MaxPages
    /\ reader = "waiting"

\* a step sends a request to the operations source / to the accounts source
SendsUserOpsRequest == Len(ops_log'.requests) = Len(ops_log.requests) + 1
SendsAccountsRequest == Len(acc_log'.requests) = Len(acc_log.requests) + 1

\* the pagination loop of a log is over: a fetch failed or the last response
\* had no token to go on with
LoopEnded(log) ==
    \/ log.failed
    \/ log.ok > 0 /\ ~CarriesString(log.returned[log.ok])

(* C30: the steps of a cycle are strictly ordered. A request goes to the
   accounts source only when the operations loop has ended, by exhaustion or
   by failure, and the unique-entity counts are written, and none goes to the
   operations source after that; the top-cost-consumers selection is written
   only by the step that ends the accounts loop. *)
C30_StepsInOrder ==
    [][ /\ SendsAccountsRequest =>
            /\ LoopEnded(ops_log)
            /\ ops_log' = ops_log
            /\ \A w \in TimeWindows :
                stats["UniqueActiveAccounts"][w] = Cardinality(SendersIn(w))
        /\ SendsUserOpsRequest => acc_log.requests = <<>> /\ ~LoopEnded(ops_log)
        /\ selected_accounts'["TopGasConsumers24h"] # selected_accounts["TopGasConsumers24h"] =>
            /\ SendsAccountsRequest
            /\ LoopEnded(acc_log')
            /\ pc' = "tick"
      ]_vars

\* a cycle ended after two pages of operations and two pages of accounts, with
\* a unique-entity count and a top-cost selection written
C30_Witness ==
    /\ AtCycleEnd
    /\ ops_log.ok = 2
    /\ acc_log.ok = 2
    /\ stats["UniqueActiveAccounts"]["Last24Hours"] > 0
    /\ selected_accounts["TopGasConsumers24h"] # <<>>

(* C31: the top-cost-consumers selection is overwritten at the end of every
   cycle from that cycle's tally alone: its senders are senders of this cycle's
   records of the last 24 hours, and when the cycle fetched no operations page,
   or no record of the last 24 hours, the selection is the empty sequence,
   whatever it was before the cycle. *)
C31_TopCostOverwrittenEveryCycle ==
    AtCycleEnd =>
        LET sel == selected_accounts["TopGasConsumers24h"]
        IN  /\ \A i \in 1..Len(sel) : sel[i].address \in QualifyingSenders
            /\ QualifyingSenders = {} => sel = <<>>
            /\ ops_log.ok = 0 => sel = <<>>

\* the first cycle left a selection, the second fetched no operations page and
\* left none
C31_Witness ==
    /\ AtCycleEnd
    /\ cycle = 2
    /\ ops_log.ok = 0
    /\ ops_log.failed
    /\ pre.selected_accounts["TopGasConsumers24h"] # <<>>
    /\ selected_accounts["TopGasConsumers24h"] = <<>>

\* the stats a reader can observe: those of a response, and those in place
\* whenever the lock is free
ObservableStats ==
    (IF response # None THEN {response[1].snapshot.stats} ELSE {})
        \cup (IF lock = "free" THEN {stats} ELSE {})

(* C32: in every snapshot a reader can observe, each of the three stats has for
   the last 24 hours a value no larger than for the last 30 days and no larger
   than for the year to date. *)
C32_WindowsAreNested ==
    \A st \in ObservableStats : \A s \in StatNames :
        /\ st[s]["Last24Hours"] <= st[s]["Last30Days"]
        /\ st[s]["Last24Hours"] <= st[s]["YearToDate"]

\* a cycle has left, for a reader to take, one operation and one sender in the
\* last 24 hours and two of each in the last 30 days
C32_Witness ==
    /\ AtCycleEnd
    /\ stats \in ObservableStats
    /\ stats["UserOps"]["Last24Hours"] = 1
    /\ stats["UserOps"]["Last30Days"] = 2
    /\ stats["UniqueActiveAccounts"]["Last24Hours"] = 1
    /\ stats["UniqueActiveAccounts"]["Last30Days"] = 2

(* C33: in every snapshot a reader can observe, the unique-active-entities
   count of a window is no larger than the operation count of that window, and
   it is zero exactly when the operation count is zero. *)
C33_UniqueAtMostOperations ==
    \A st \in ObservableStats : \A w \in TimeWindows :
        /\ st["UniqueActiveAccounts"][w] <= st["UserOps"][w]
        /\ st["UniqueActiveAccounts"][w] = 0 <=> st["UserOps"][w] = 0

\* a reader got a snapshot with two operations of one sender
C33_Witness ==
    /\ response # None
    /\ response[1].snapshot.stats["UserOps"]["Last24Hours"] = 2
    /\ response[1].snapshot.stats["UniqueActiveAccounts"]["Last24Hours"] = 1

\* s is an initial segment of t
IsPrefix(s, t) == Len(s) <= Len(t) /\ SubSeq(t, 1, Len(s)) = s

(* C34: the deposits and withdrawals lists of the bridge status only grow:
   every step leaves the earlier entries where they were, and after k cycles
   that found every deposit, against an upstream with d deposits and n
   operators, there are k*d deposits and k*n withdrawals; the operators and
   reimbursements lists hold the result of the last cycle that wrote them. *)
C34_DepositsAndWithdrawalsAppendOnly ==
    [][ /\ IsPrefix(bridge.status.deposits, bridge'.status.deposits)
        /\ IsPrefix(bridge.status.withdrawals, bridge'.status.withdrawals)
        /\ bridge'.pc = "tick" /\ bridge'.done > 0 =>
            /\ bridge'.complete =>
                Len(bridge'.status.deposits)
                    = bridge'.done * Cardinality(bridge'.upstream.deposits)
            /\ Len(bridge'.status.withdrawals)
                    = bridge'.done * Cardinality(bridge'.upstream.operators)
            /\ Len(bridge'.status.operators) = Cardinality(bridge'.upstream.operators)
            /\ Len(bridge'.status.reimbursements) = MockReimbursements
      ]_vars

\* two cycles ran against two deposits and two operators
C34_Witness ==
    /\ bridge.pc = "tick"
    /\ bridge.done = 2
    /\ bridge.complete
    /\ Len(bridge.status.deposits) = 4
    /\ Len(bridge.status.withdrawals) = 4
    /\ Len(bridge.status.operators) = 2
    /\ Len(bridge.status.reimbursements) = MockReimbursements

(* C35: when the call for the operator set or for the current deposit ids
   fails, the bridge task stops for good: from then on no cycle runs, the lock
   is free, the status stays as it was at the failure, with the operators list
   of that cycle if it was already replaced, and reads return that status. *)
C35_FailedCallStopsTheBridgeTask ==
    [][ /\ bridge.pc = "operators" /\ bridge'.pc \notin {"operators", "deposits"} =>
            /\ bridge'.pc = "dead"
            /\ bridge'.status = bridge.status
        /\ bridge.pc = "deposits" /\ bridge'.pc \notin {"deposits", "withdrawals"} =>
            /\ bridge'.pc = "dead"
            /\ bridge'.status.operators = bridge.status.operators
        /\ bridge'.pc = "dead" =>
            /\ bridge'.lock = "free"
            /\ bridge'.at_failure = Some(bridge'.status)
            /\ bridge'.done = bridge.done
        /\ bridge.pc = "dead" =>
            /\ bridge'.pc = "dead"
            /\ bridge'.response = Some(bridge.status)
      ]_vars

\* the call for the deposit ids failed in the second cycle, and a reader got
\* the status with that cycle's operators and the first cycle's deposits
C35_Witness ==
    /\ bridge.pc = "dead"
    /\ bridge.died_at = Some("deposits")
    /\ bridge.done = 1
    /\ bridge.response = Some(bridge.status)
    /\ Len(bridge.status.deposits) = 2
    /\ Len(bridge.status.operators) = 2
    /\ bridge.status.operators[1].status = "Offline"
    /\ Len(bridge.status.withdrawals) = 2

-----------------------------------------------------------------------------
\* the step that ends a cycle of the balance task, one way or the other
EndsBalanceCycle == wallets.pc = "validating" /\ wallets'.pc # "validating"

\* a fetch of the cycle that ends yielded no value
BalanceMissing == wallets'.balance_dep = None \/ wallets'.balance_val = None

\* a fetch that yields no value leaves "0" as the wallet's balance
MissingBalanceIsZero ==
    /\ wallets.pc = "deposit" /\ wallets'.pc = "validating" /\ wallets'.balance_dep = None
            => wallets'.deposit = ZeroString
    /\ EndsBalanceCycle /\ wallets'.balance_val = None
            => wallets'.validating = ZeroString

\* once the balance task is gone the balances stay and the lock is free
DeadBalanceTaskStaysDead ==
    /\ wallets'.pc = "dead" => wallets'.lock = "free"
    /\ wallets.pc = "dead"
            => /\ wallets'.pc = "dead"
               /\ wallets'.deposit = wallets.deposit
               /\ wallets'.validating = wallets.validating

\* C36 as stated: a fetch that yields no value leaves "0" as that wallet's
\* balance, and the balance task ends in that same cycle, whatever the logger
\* lets through; from then on the balances stay as they are and reads are
\* served.
C36_MissingBalanceEndsTheTask ==
    [][/\ MissingBalanceIsZero
       /\ DeadBalanceTaskStaysDead
       /\ EndsBalanceCycle /\ BalanceMissing => wallets'.pc = "dead"]_vars

\* C36, amended: a fetch that yields no value leaves "0" as that wallet's
\* balance; the balance task ends in that same cycle when the logger lets info
\* records through, and from then on the balances stay as they are while
\* reads are served; when info records are filtered out the log statement
\* unwraps nothing, the cycle ends as any other and the task goes on.
C36_MissingBalanceEndsTheTaskWhenLogged ==
    [][/\ MissingBalanceIsZero
       /\ DeadBalanceTaskStaysDead
       /\ EndsBalanceCycle /\ BalanceMissing /\ wallets.info => wallets'.pc = "dead"
       /\ EndsBalanceCycle /\ ~wallets.info
            => wallets'.pc = "tick" /\ wallets'.rounds = wallets.rounds + 1
       /\ wallets'.pc = "dead" => wallets'.missed /\ wallets'.info]_vars

\* the task died in its first cycle on the deposit balance, and a read after
\* that returned "0" for it next to the validating balance of that cycle
C36_Witness ==
    /\ wallets.pc = "dead"
    /\ wallets.rounds = 0
    /\ wallets.balance_dep = None
    /\ wallets.response = Some([deposit |-> ZeroString, validating |-> <<"2", "6">>])

-----------------------------------------------------------------------------
\* the statuses of the rounds that ended, and the one main() starts with
StatusesOfOneRound ==
    {NetworkStart.status} \cup {network.rounds[i] : i \in 1..Len(network.rounds)}

\* C37: the status task holds the lock of the shared status only to assign
\* it, after its three probes and never during one, and the whole status is
\* replaced at once: the status stored, and every status get_network_status
\* returns, is the initial all-Offline one or the three results of one round.
C37_StatusComesFromOneRound ==
    /\ network.lock = "task" => network.pc = "assign" /\ Len(network.probed) = 3
    /\ network.status \in StatusesOfOneRound
    /\ network.response # None => network.response[1] \in StatusesOfOneRound

\* two rounds ended with different results, each with fields that differ, and
\* a read between them returned the first
C37_Witness ==
    /\ Len(network.rounds) = 2
    /\ network.rounds[1] = [batch_producer |-> "Online", rpc_endpoint |-> "Offline",
                            bundler_endpoint |-> "Online"]
    /\ network.status = [batch_producer |-> "Offline", rpc_endpoint |-> "Online",
                         bundler_endpoint |-> "Offline"]
    /\ network.response = Some(network.rounds[1])

-----------------------------------------------------------------------------
\* C38: the conversions of PgU64 undo each other over the whole range of
\* either type: from_i64(to_i64(x)) holds x and to_i64(from_i64(y)) is y; and
\* no cast changes a value: to_i64(x) is x minus the offset and from_i64(y) is
\* y plus the offset, as integers.
C38_ConversionsRoundTrip ==
    /\ pgu64.pc # "start"
            => pgu64.x_i64 = Some(pgu64.x - Offset) /\ pgu64.x_i64[1] \in I64
    /\ pgu64.pc \in {"loaded", "done"}
            => /\ pgu64.x_back = Some(pgu64.x)
               /\ pgu64.y_u64 = Some(pgu64.y + Offset)
               /\ pgu64.y_u64[1] \in U64
    /\ pgu64.pc = "done" => pgu64.y_back = Some(pgu64.y)

\* the greatest unsigned value and the least signed value went there and back
C38_Witness ==
    /\ pgu64.pc = "done"
    /\ pgu64.x = 2^PgBits - 1
    /\ pgu64.x_back = Some(pgu64.x)
    /\ pgu64.y = 0 - 2^(PgBits - 1)
    /\ pgu64.y_u64 = Some(0)
    /\ pgu64.y_back = Some(pgu64.y)

\* C39: to_i64 keeps the order: x < z as unsigned values exactly when
\* to_i64(x) < to_i64(z) as signed values; 0 goes to the least signed value
\* and the greatest unsigned value to the greatest signed value.
C39_ToI64KeepsTheOrder ==
    pgu64.pc # "start"
        => /\ pgu64.x < pgu64.z <=> pgu64.x_i64[1] < pgu64.z_i64[1]
           /\ pgu64.x = 0 => pgu64.x_i64[1] = 0 - 2^(PgBits - 1)
           /\ pgu64.x = 2^PgBits - 1 => pgu64.x_i64[1] = 2^(PgBits - 1) - 1

\* two values on either side of the middle of the unsigned range, converted
C39_Witness ==
    /\ pgu64.pc = "stored"
    /\ pgu64.x = 2^(PgBits - 1) - 1
    /\ pgu64.z = 2^(PgBits - 1)
    /\ pgu64.x_i64 = Some(0 - 1)
    /\ pgu64.z_i64 = Some(0)

====
